---- MODULE Spec2Model ----
(***************************************************************************)
(* Model of github-security-checker's core engine (packages/core):        *)
(* the check modules, the scan orchestrator (scanRepository), the          *)
(* multi-repository driver (scanMultipleRepos), the score calculator, the  *)
(* SOC 2 report (generateSOC2Report) and the fixer (SecurityFixer), and   *)
(* of the editor extension's connection handling and status views.         *)
(*                                                                         *)
(* A finding is the record the code pushes, reduced to the fields the      *)
(* engine reads again: id, category, severity, soc2Control.  The provider  *)
(* (Octokit) is an environment: every call is answered with a response     *)
(* record [status, data]; status 200 carries data, any other status is the *)
(* RequestError the call throws.                                           *)
(***************************************************************************)
EXTENDS Integers, Sequences, FiniteSets, TLC

VARIABLES
  provider,    \* repository full name -> what the provider answers for it
  threshold,   \* config.severityThreshold ("unset" when not configured)
  batch,       \* scanMultipleRepos: the repos argument
  idx,         \* scanMultipleRepos: position of the for-of loop
  pcMany,      \* scanMultipleRepos: "idle", "identity", "checks", "returned"
  repoData,    \* scanRepository: data of the identity lookup of the scan
  mods,        \* scanRepository: the five promises handed to Promise.all
  orphans,     \* per batch position: check modules still in flight after
               \* the scan that started them was rejected
  results,     \* scanMultipleRepos: the results array
  outcome,     \* history: how scanRepository ended, per batch position
  launched,    \* history: batch positions whose check modules were started
  inverted,    \* history: in the latest scan that started its modules, one
               \* settled before a module listed ahead of it in Promise.all
  chk,         \* a check module applied to one provider answer
  res,         \* the tail of scanRepository applied to one finding list
  rep,         \* generateSOC2Report applied to one list of scan results
  fx,          \* SecurityFixer: the repository's configuration at the
               \* provider and the fixFinding invocations made on it
  ext          \* the editor extension: secret storage, the scanner and
               \* fixer handles, and where its async handlers stand

vars == <<provider, threshold, batch, idx, pcMany, repoData, mods, orphans,
          results, outcome, launched, inverted, chk, res, rep, fx, ext>>

scanVars == <<provider, threshold, batch, idx, pcMany, repoData, mods,
              orphans, results, outcome, launched, inverted>>

(***************************************************************************)
(* Bounds of the model.                                                    *)
(***************************************************************************)
MaxBatch == 2        \* longest repos argument of scanMultipleRepos
MaxFindings == 5     \* longest finding list fed to the tail of scanRepository
MaxAlerts == 2       \* most open Dependabot alerts the provider lists

(***************************************************************************)
(* types.ts                                                                *)
(***************************************************************************)
Severity == {"critical", "high", "medium", "low", "info"}

Null == [null |-> TRUE]

NoControl == "none"

Finding(id, category, severity, control) ==
  [id |-> id, category |-> category, severity |-> severity, soc2Control |-> control]

\* c ? [f] : []
When(c, f) == IF c THEN <<f>> ELSE <<>>

\* what an async check function settles with
Resolved(fs) == [ok |-> TRUE, findings |-> fs, error |-> 0]
Rejected(status) == [ok |-> FALSE, findings |-> <<>>, error |-> status]

IsError(r) == r.status # 200

(***************************************************************************)
(* checks/branch-protection.ts                                             *)
(***************************************************************************)
BpFindings ==
  [ NoPrReviews |-> Finding("bp-no-pr-reviews", "branch-protection", "high", "CC6.1"),
    StaleReviews |-> Finding("bp-stale-reviews", "branch-protection", "medium", "CC6.1"),
    NoCodeownerReview |-> Finding("bp-no-codeowner-review", "branch-protection", "medium", "CC6.1"),
    LowReviewCount |-> Finding("bp-low-review-count", "branch-protection", "medium", "CC6.1"),
    AdminBypass |-> Finding("bp-admin-bypass", "branch-protection", "high", "CC6.1"),
    NoStatusChecks |-> Finding("bp-no-status-checks", "branch-protection", "high", "CC7.1"),
    ForcePushAllowed |-> Finding("bp-force-push-allowed", "branch-protection", "high", "CC6.1"),
    DeletionsAllowed |-> Finding("bp-deletions-allowed", "branch-protection", "medium", "CC6.1"),
    NoConversationResolution |-> Finding("bp-no-conversation-resolution", "branch-protection", "low", "CC6.1"),
    NoSignedCommits |-> Finding("bp-no-signed-commits", "branch-protection", "medium", "CC6.1"),
    NoLinearHistory |-> Finding("bp-no-linear-history", "branch-protection", "low", "CC6.1"),
    NotEnabled |-> Finding("bp-not-enabled", "branch-protection", "critical", "CC6.1"),
    NotAvailable |-> Finding("bp-not-available", "branch-protection", "info", "CC6.1") ]

\* BpPolicyFindings, had the three review predicates been evaluated whether
\* or not pull-request reviews are required (no else branch)
BpPolicyFindingsFlat(data) ==
  LET reviews == data.required_pull_request_reviews
  IN  When(reviews = Null, BpFindings.NoPrReviews)
      \o When(reviews = Null \/ ~reviews.dismiss_stale_reviews, BpFindings.StaleReviews)
      \o When(reviews = Null \/ ~reviews.require_code_owner_reviews,
              BpFindings.NoCodeownerReview)
      \o When(reviews = Null \/ reviews.required_approving_review_count < 2,
              BpFindings.LowReviewCount)
      \o When(~data.enforce_admins, BpFindings.AdminBypass)
      \o When(data.required_status_checks = Null
              \/ data.required_status_checks.contexts = 0, BpFindings.NoStatusChecks)
      \o When(data.allow_force_pushes, BpFindings.ForcePushAllowed)
      \o When(data.allow_deletions, BpFindings.DeletionsAllowed)
      \o When(~data.required_conversation_resolution, BpFindings.NoConversationResolution)
      \o When(~data.required_signatures, BpFindings.NoSignedCommits)
      \o When(~data.required_linear_history, BpFindings.NoLinearHistory)

\* the predicates evaluated on the policy the provider returned (try block)
BpPolicyFindings(data) ==
  LET reviews == data.required_pull_request_reviews
  IN  (IF reviews = Null
         THEN <<BpFindings.NoPrReviews>>
         ELSE When(~reviews.dismiss_stale_reviews, BpFindings.StaleReviews)
              \o When(~reviews.require_code_owner_reviews, BpFindings.NoCodeownerReview)
              \o When(reviews.required_approving_review_count < 2, BpFindings.LowReviewCount))
      \o When(~data.enforce_admins, BpFindings.AdminBypass)
      \o When(data.required_status_checks = Null
              \/ data.required_status_checks.contexts = 0, BpFindings.NoStatusChecks)
      \o When(data.allow_force_pushes, BpFindings.ForcePushAllowed)
      \o When(data.allow_deletions, BpFindings.DeletionsAllowed)
      \o When(~data.required_conversation_resolution, BpFindings.NoConversationResolution)
      \o When(~data.required_signatures, BpFindings.NoSignedCommits)
      \o When(~data.required_linear_history, BpFindings.NoLinearHistory)

\* the catch block: the refusal reason decides
\* the catch block, had it read every refusal as "no protection configured"
BpRefusedAlike(status) ==
  IF status \in {404, 403} THEN Resolved(<<BpFindings.NotEnabled>>)
  ELSE Rejected(status)

BpRefused(status) ==
  IF status = 404 THEN Resolved(<<BpFindings.NotEnabled>>)
  ELSE IF status = 403 THEN Resolved(<<BpFindings.NotAvailable>>)
  ELSE Rejected(status)

\* checkBranchProtection, had the catch block fallen through to the
\* predicates instead of ending the check
checkBranchProtectionFallsThrough(r) ==
  IF IsError(r)
    THEN LET s == BpRefused(r.status)
         IN  [s EXCEPT !.findings =
                IF s.ok THEN @ \o <<BpFindings.NoPrReviews, BpFindings.AdminBypass, BpFindings.NoStatusChecks>>
                ELSE @]
    ELSE Resolved(BpPolicyFindings(r.data))

\* r: the answer to repos.getBranchProtection({owner, repo, branch})
checkBranchProtection(r) ==
  IF IsError(r) THEN BpRefused(r.status) ELSE Resolved(BpPolicyFindings(r.data))

(***************************************************************************)
(* checks/security-features.ts                                             *)
(***************************************************************************)
SfFindings ==
  [ NoSecurityPolicy |-> Finding("sf-no-security-policy", "security-features", "medium", "CC7.4"),
    NoDependabotAlerts |-> Finding("sf-no-dependabot-alerts", "security-features", "high", "CC7.1"),
    NoDependabotConfig |-> Finding("sf-no-dependabot-config", "security-features", "medium", "CC7.1"),
    NoCodeScanning |-> Finding("sf-no-code-scanning", "security-features", "high", "CC7.1"),
    NoSecretScanning |-> Finding("sf-no-secret-scanning", "security-features", "high", "CC6.7"),
    PushProtectionCheck |-> Finding("sf-push-protection-check", "security-features", "info", "CC6.7") ]
DepFindings ==
  [ CriticalVulns |-> Finding("dep-critical-vulns", "dependencies", "critical", "CC7.1"),
    HighVulns |-> Finding("dep-high-vulns", "dependencies", "high", "CC7.1") ]

\* w.name.toLowerCase().includes('codeql'), on the workflow names of the model
LowerIncludesCodeql(name) == name \in {"CodeQL", "codeql-analysis"}

\* w.path.includes('codeql'): case-sensitive
IncludesCodeql(path) == path \in {".github/workflows/codeql.yml"}

\* workflows.workflows.some(...), false when listRepoWorkflows threw
HasCodeScanning(r) ==
  IF IsError(r) THEN FALSE
  ELSE \E w \in r.data.workflows : LowerIncludesCodeql(w.name) \/ IncludesCodeql(w.path)

\* SfSubQueries, had the push-protection note been left out for a repository
\* whose secret scanning answers
SfSubQueriesOnDemand(a) ==
  When(IsError(a.content["SECURITY.md"]), SfFindings.NoSecurityPolicy)
  \o When(a.vulnAlerts.status = 404, SfFindings.NoDependabotAlerts)
  \o When(IsError(a.content[".github/dependabot.yml"]), SfFindings.NoDependabotConfig)
  \o When(~HasCodeScanning(a.workflows), SfFindings.NoCodeScanning)
  \o When(a.secretScanning.status = 404, SfFindings.NoSecretScanning)
  \o When(IsError(a.secretScanning), SfFindings.PushProtectionCheck)

\* the sub-queries after repos.get; a: the provider's answers for the repository
SfSubQueries(a) ==
  When(IsError(a.content["SECURITY.md"]), SfFindings.NoSecurityPolicy)
  \o When(a.vulnAlerts.status = 404, SfFindings.NoDependabotAlerts)
  \o When(IsError(a.content[".github/dependabot.yml"]), SfFindings.NoDependabotConfig)
  \o When(~HasCodeScanning(a.workflows), SfFindings.NoCodeScanning)
  \o When(a.secretScanning.status = 404, SfFindings.NoSecretScanning)
  \o <<SfFindings.PushProtectionCheck>>

\* checkSecurityFeatures, had the outer catch block not rethrown
checkSecurityFeaturesSwallows(get, a) ==
  IF IsError(get) THEN Resolved(<<>>) ELSE Resolved(SfSubQueries(a))

\* get: the answer to the module's own repos.get
checkSecurityFeatures(get, a) ==
  IF IsError(get) THEN Rejected(get.status) ELSE Resolved(SfSubQueries(a))

CountAlerts(alerts, sev) == Len(SelectSeq(alerts, LAMBDA s : s = sev))

\* r: the answer to dependabot.listAlertsForRepo; every error is caught
checkDependencyAlerts(r) ==
  IF IsError(r) THEN Resolved(<<>>)
  ELSE Resolved(When(CountAlerts(r.data.items, "critical") > 0, DepFindings.CriticalVulns)
                \o When(CountAlerts(r.data.items, "high") > 0, DepFindings.HighVulns))

(***************************************************************************)
(* checks/access-control.ts                                                *)
(***************************************************************************)
AcFindings ==
  [ PublicRepo |-> Finding("ac-public-repo", "access-control", "info", "CC6.1"),
    TooManyAdmins |-> Finding("ac-too-many-admins", "access-control", "medium", "CC6.1"),
    OutsideCollaborators |-> Finding("ac-outside-collaborators", "access-control", "info", "CC6.2"),
    WriteDeployKeys |-> Finding("ac-write-deploy-keys", "access-control", "medium", "CC6.1"),
    OldDeployKeys |-> Finding("ac-old-deploy-keys", "access-control", "low", "CC6.1"),
    InsecureWebhooks |-> Finding("ac-insecure-webhooks", "access-control", "high", "CC6.7"),
    WebhooksNoSecret |-> Finding("ac-webhooks-no-secret", "access-control", "medium", "CC6.7") ]

AdminLimit == 5

\* created_at is counted in days before the scan; oneYearAgo is 365 days back
OneYearAgo == 365

Count(seq, P(_)) == Len(SelectSeq(seq, P))

AcCollaborators(r) ==
  IF IsError(r) THEN <<>>
  ELSE When(Count(r.data.items, LAMBDA c : c.admin) > AdminLimit, AcFindings.TooManyAdmins)
       \o When(Count(r.data.items, LAMBDA c : c.push /\ ~c.admin) > 0, AcFindings.OutsideCollaborators)

AcDeployKeys(r) ==
  IF IsError(r) THEN <<>>
  ELSE When(Count(r.data.items, LAMBDA k : ~k.read_only) > 0, AcFindings.WriteDeployKeys)
       \o When(Count(r.data.items, LAMBDA k : k.created_at > OneYearAgo) > 0, AcFindings.OldDeployKeys)

\* w.config.url.startsWith('https://'), on the hook urls of the model
StartsWithHttps(url) == url \in {"https://hook"}

AcWebhooks(r) ==
  IF IsError(r) THEN <<>>
  ELSE When(Count(r.data.items, LAMBDA w : w.url # "" /\ ~StartsWithHttps(w.url)) > 0, AcFindings.InsecureWebhooks)
       \o When(Count(r.data.items, LAMBDA w : ~w.secret) > 0, AcFindings.WebhooksNoSecret)

checkAccessControl(get, a) ==
  IF IsError(get) THEN Rejected(get.status)
  ELSE Resolved(When(get.data.visibility = "public", AcFindings.PublicRepo)
                \o AcCollaborators(a.collaborators)
                \o AcDeployKeys(a.deployKeys)
                \o AcWebhooks(a.webhooks))

(***************************************************************************)
(* checks/repository-settings.ts                                           *)
(***************************************************************************)
RsFindings ==
  [ WikiEnabled |-> Finding("rs-wiki-enabled", "repository-settings", "info", "CC6.1"),
    IssuesDisabled |-> Finding("rs-issues-disabled", "repository-settings", "low", "CC7.4"),
    LegacyBranchName |-> Finding("rs-legacy-branch-name", "repository-settings", "info", NoControl),
    NoReadme |-> Finding("rs-no-readme", "repository-settings", "low", NoControl),
    NoLicense |-> Finding("rs-no-license", "repository-settings", "low", NoControl),
    NoCodeowners |-> Finding("rs-no-codeowners", "repository-settings", "medium", "CC6.1"),
    ActionsAllAllowed |-> Finding("rs-actions-all-allowed", "repository-settings", "medium", "CC6.1"),
    NoGitignore |-> Finding("rs-no-gitignore", "repository-settings", "low", "CC6.7"),
    TokenWritePermissions |-> Finding("rs-token-write-permissions", "repository-settings", "high", "CC6.1"),
    TokenCanApprovePrs |-> Finding("rs-token-can-approve-prs", "repository-settings", "medium", "CC6.1"),
    PrivateForkingAllowed |-> Finding("rs-private-forking-allowed", "repository-settings", "medium", "CC6.1"),
    AllMergeTypesAllowed |-> Finding("rs-all-merge-types-allowed", "repository-settings", "info", NoControl),
    NoAutoDeleteBranches |-> Finding("rs-no-auto-delete-branches", "repository-settings", "low", NoControl),
    UnprotectedEnvironments |-> Finding("rs-unprotected-environments", "repository-settings", "medium", "CC6.1") ]

codeownersPaths == <<".github/CODEOWNERS", "CODEOWNERS", "docs/CODEOWNERS">>

\* the for loop over codeownersPaths: the first path that is answered wins
HasCodeowners(content) ==
  \E i \in 1..Len(codeownersPaths) : ~IsError(content[codeownersPaths[i]])

RsActionsPermissions(r) ==
  IF IsError(r) THEN <<>>
  ELSE When(r.data.enabled /\ r.data.allowed_actions = "all", RsFindings.ActionsAllAllowed)

RsWorkflowPermissions(r) ==
  IF IsError(r) THEN <<>>
  ELSE When(r.data.default_workflow_permissions = "write", RsFindings.TokenWritePermissions)
       \o When(r.data.can_approve_pull_request_reviews, RsFindings.TokenCanApprovePrs)

\* data is Null when the answer carries no environments array;
\* env.protection_rules is Null or an array of the given length
RsEnvironments(r) ==
  IF IsError(r) \/ r.data = Null THEN <<>>
  ELSE When(Len(r.data.environments) > 0
            /\ Count(r.data.environments,
                     LAMBDA env : env.protection_rules = Null
                                  \/ env.protection_rules.length = 0) > 0,
            RsFindings.UnprotectedEnvironments)

checkRepositorySettings(get, a) ==
  IF IsError(get) THEN Rejected(get.status)
  ELSE LET repo == get.data
       IN  Resolved(
             When(repo.has_wiki /\ repo.visibility = "public", RsFindings.WikiEnabled)
             \o When(~repo.has_issues, RsFindings.IssuesDisabled)
             \o When(repo.default_branch = "master", RsFindings.LegacyBranchName)
             \o When(IsError(a.readme), RsFindings.NoReadme)
             \o When(IsError(a.license), RsFindings.NoLicense)
             \o When(~HasCodeowners(a.content), RsFindings.NoCodeowners)
             \o RsActionsPermissions(a.actionsPermissions)
             \o When(IsError(a.content[".gitignore"]), RsFindings.NoGitignore)
             \o RsWorkflowPermissions(a.workflowPermissions)
             \o When(repo.visibility = "private" /\ repo.allow_forking, RsFindings.PrivateForkingAllowed)
             \o When(repo.allow_merge_commit /\ repo.allow_squash_merge
                     /\ repo.allow_rebase_merge, RsFindings.AllMergeTypesAllowed)
             \o When(~repo.delete_branch_on_merge, RsFindings.NoAutoDeleteBranches)
             \o RsEnvironments(a.environments))

(***************************************************************************)
(* scanner.ts: the tail of scanRepository and calculateScore               *)
(***************************************************************************)
severityOrder == <<"critical", "high", "medium", "low", "info">>

\* Array.prototype.indexOf, counted from 0; -1 when absent
IndexOf(seq, x) ==
  IF \E i \in 1..Len(seq) : seq[i] = x
    THEN (CHOOSE i \in 1..Len(seq) : seq[i] = x /\ \A j \in 1..(i - 1) : seq[j] # x) - 1
    ELSE -1

\* OrLow, had a value that is no Severity fallen back to 'low' as well
OrLowValidated(t) == IF t \notin Severity THEN "low" ELSE t

\* this.config.severityThreshold || 'low'
OrLow(t) == IF t \in {"unset", ""} THEN "low" ELSE t

thresholdIndex(t) == IndexOf(severityOrder, OrLow(t))

\* Retained with < in place of <=
RetainedBelow(f, t) == IndexOf(severityOrder, f.severity) < thresholdIndex(t)

Retained(f, t) == IndexOf(severityOrder, f.severity) <= thresholdIndex(t)

filteredFindings(allFindings, t) == SelectSeq(allFindings, LAMBDA f : Retained(f, t))

CountSeverity(fs, sev) == Len(SelectSeq(fs, LAMBDA f : f.severity = sev))

Summary(fs) ==
  [critical |-> CountSeverity(fs, "critical"),
   high |-> CountSeverity(fs, "high"),
   medium |-> CountSeverity(fs, "medium"),
   low |-> CountSeverity(fs, "low"),
   info |-> CountSeverity(fs, "info"),
   passed |-> 0]

deductions == [critical |-> 25, high |-> 15, medium |-> 8, low |-> 3, info |-> 0]

RECURSIVE Deduct(_, _)
\* the for loop of calculateScore: score -= deductions[finding.severity]
Deduct(score, fs) ==
  IF fs = <<>> THEN score
  ELSE Deduct(score - deductions[Head(fs).severity], Tail(fs))

Max(a, b) == IF a >= b THEN a ELSE b

\* calculateScore without the clamp at 0
calculateScoreUnclamped(fs) == Deduct(100, fs)

calculateScore(fs) == Max(0, Deduct(100, fs))

\* RepoScanResult, had the summary been counted before the filter
RepoScanResultCountsAll(owner, name, data, allFindings, t) ==
  LET kept == filteredFindings(allFindings, t)
  IN  [repository |-> [owner |-> owner, name |-> name, fullName |-> data.full_name,
                       visibility |-> data.visibility,
                       defaultBranch |-> data.default_branch],
       findings |-> kept,
       score |-> calculateScore(kept),
       summary |-> Summary(allFindings)]

\* the object scanRepository returns (scannedAt and url left out)
RepoScanResult(owner, name, data, allFindings, t) ==
  LET kept == filteredFindings(allFindings, t)
  IN  [repository |-> [owner |-> owner, name |-> name, fullName |-> data.full_name,
                       visibility |-> data.visibility,
                       defaultBranch |-> data.default_branch],
       findings |-> kept,
       score |-> calculateScore(kept),
       summary |-> Summary(kept)]

(***************************************************************************)
(* reports/soc2.ts: generateSOC2Report.  The findings it reads carry their *)
(* description; the call yields the report and leaves the objects of its   *)
(* argument in some state, which the model keeps beside the report.        *)
(***************************************************************************)
\* Object.keys(SOC2_CONTROLS), in insertion order
SOC2_CONTROLS == <<"CC6.1", "CC6.2", "CC6.7", "CC7.1", "CC7.4", "CC8.1">>

\* line 23: finding.soc2Control && controlFindings[finding.soc2Control]
Pools(finding, controlId) ==
  finding.soc2Control # NoControl /\ finding.soc2Control = controlId

\* line 24, had it rewritten the description of the finding it was handed
\* and pushed that very object
PoolingInPlace(result, finding) ==
  LET rewritten == [finding EXCEPT !.description =
                      "[" \o result.repository.fullName \o "] " \o @]
  IN  [pushed |-> rewritten, left |-> rewritten]

\* line 24: the object pushed, and the finding of the argument after it
Pooling(result, finding) ==
  [pushed |-> [finding EXCEPT !.description =
                 "[" \o result.repository.fullName \o "] " \o @],
   left |-> finding]

\* what lines 22-26 push to controlFindings[controlId] for one result
PushedBy(result, controlId) ==
  LET hits == SelectSeq(result.findings, LAMBDA f : Pools(f, controlId))
  IN  [k \in 1..Len(hits) |-> Pooling(result, hits[k]).pushed]

RECURSIVE controlFindings(_, _)
controlFindings(scanResults, controlId) ==
  IF scanResults = <<>> THEN <<>>
  ELSE controlFindings(SubSeq(scanResults, 1, Len(scanResults) - 1), controlId)
       \o PushedBy(scanResults[Len(scanResults)], controlId)

\* the argument's objects once the loop of lines 21-34 is over
ResultsAfter(scanResults) ==
  [i \in 1..Len(scanResults) |->
     [scanResults[i] EXCEPT !.findings =
        [j \in 1..Len(@) |->
           IF \E k \in 1..Len(SOC2_CONTROLS) : Pools(@[j], SOC2_CONTROLS[k])
             THEN Pooling(scanResults[i], @[j]).left
             ELSE @[j]]]]

\* lines 29-33, in the order of the code
EvidenceTable ==
  << [id |-> "bp-not-enabled", control |-> "CC6.1",
      sentence |-> ": Branch protection is enabled on default branch."],
     [id |-> "sf-no-dependabot-alerts", control |-> "CC7.1",
      sentence |-> ": Dependabot alerts are enabled for vulnerability detection."],
     [id |-> "sf-no-code-scanning", control |-> "CC7.1",
      sentence |-> ": Code scanning is configured for security analysis."],
     [id |-> "sf-no-security-policy", control |-> "CC7.4",
      sentence |-> ": Security policy (SECURITY.md) is in place."],
     [id |-> "sf-no-secret-scanning", control |-> "CC6.7",
      sentence |-> ": Secret scanning is enabled to prevent credential leaks."] >>

\* !result.findings.some(f => f.id === id)
Absent(result, id) == \A j \in 1..Len(result.findings) : result.findings[j].id # id

\* lines 28-33, had a control with a pooled finding of the result been
\* given no evidence for that result
EvidenceByUnlessPooled(result, controlId) ==
  LET rows == SelectSeq(EvidenceTable,
                LAMBDA e : /\ e.control = controlId
                           /\ Absent(result, e.id)
                           /\ \A j \in 1..Len(result.findings) :
                                ~Pools(result.findings[j], controlId))
  IN  [k \in 1..Len(rows) |-> result.repository.fullName \o rows[k].sentence]

\* what lines 28-33 push to controlEvidence[controlId] for one result
EvidenceBy(result, controlId) ==
  LET rows == SelectSeq(EvidenceTable,
                LAMBDA e : e.control = controlId /\ Absent(result, e.id))
  IN  [k \in 1..Len(rows) |-> result.repository.fullName \o rows[k].sentence]

RECURSIVE controlEvidence(_, _)
controlEvidence(scanResults, controlId) ==
  IF scanResults = <<>> THEN <<>>
  ELSE controlEvidence(SubSeq(scanResults, 1, Len(scanResults) - 1), controlId)
       \o EvidenceBy(scanResults[Len(scanResults)], controlId)

\* lines 39-43, had the threshold of the pooled count been 3
statusUpToThree(findings) ==
  LET criticalOrHigh ==
        SelectSeq(findings, LAMBDA f : f.severity \in {"critical", "high"})
  IN  IF Len(criticalOrHigh) = 0 /\ Len(findings) <= 3 THEN "compliant"
      ELSE IF Len(criticalOrHigh) = 0 THEN "partial"
      ELSE "non-compliant"

\* lines 39-43
controlStatus(findings) ==
  LET criticalOrHigh ==
        SelectSeq(findings, LAMBDA f : f.severity \in {"critical", "high"})
  IN  IF Len(criticalOrHigh) = 0 /\ Len(findings) <= 2 THEN "compliant"
      ELSE IF Len(criticalOrHigh) = 0 THEN "partial"
      ELSE "non-compliant"

\* Math.floor of the non-negative num / den
MathFloor(num, den) == num \div den

\* Math.round of the non-negative num / den: the nearest integer, a half up
MathRound(num, den) == (2 * num + den) \div (2 * den)

\* lines 47-49: ((compliantCount + partialCount * 0.5) / controls.length) * 100
overallCompliance(controls) ==
  LET compliantCount == Len(SelectSeq(controls, LAMBDA c : c.status = "compliant"))
      partialCount == Len(SelectSeq(controls, LAMBDA c : c.status = "partial"))
  IN  MathRound(100 * (2 * compliantCount + partialCount), 2 * Len(controls))

\* generateSOC2Report, had the status of a control been decided by its
\* first pooled finding
generateSOC2ReportHeadFirst(scanResults) ==
  LET headStatus(findings) ==
        IF findings = <<>> THEN "compliant"
        ELSE IF findings[1].severity \in {"critical", "high"} THEN "non-compliant"
        ELSE IF Len(findings) <= 2 THEN "compliant"
        ELSE "partial"
      controls ==
        [k \in 1..Len(SOC2_CONTROLS) |->
           LET findings == controlFindings(scanResults, SOC2_CONTROLS[k])
           IN  [id |-> SOC2_CONTROLS[k], status |-> headStatus(findings),
                findings |-> findings,
                evidence |-> controlEvidence(scanResults, SOC2_CONTROLS[k])]]
  IN  [repositories |->
         [i \in 1..Len(scanResults) |-> scanResults[i].repository.fullName],
       controls |-> controls,
       overallCompliance |-> overallCompliance(controls)]

generateSOC2Report(scanResults) ==
  LET controls ==
        [k \in 1..Len(SOC2_CONTROLS) |->
           LET findings == controlFindings(scanResults, SOC2_CONTROLS[k])
           IN  [id |-> SOC2_CONTROLS[k], status |-> controlStatus(findings),
                findings |-> findings,
                evidence |-> controlEvidence(scanResults, SOC2_CONTROLS[k])]]
  IN  [repositories |->
         [i \in 1..Len(scanResults) |-> scanResults[i].repository.fullName],
       controls |-> controls,
       overallCompliance |-> overallCompliance(controls)]

(***************************************************************************)
(* fixer.ts: SecurityFixer.  A provider call is the record of its method   *)
(* and parameters; the provider either completes it, which sets what the   *)
(* call names in the repository's configuration, or fails it with a        *)
(* message, which leaves the configuration as it is.                       *)
(***************************************************************************)
\* branch || 'main'
OrMain(branch) == IF branch \in {"unset", ""} THEN "main" ELSE branch

\* the body of updateBranchProtection in lines 54-60, 65-71, 81-87, 92-98;
\* enforce_admins: null, admins not held to the protection, is written FALSE
Protection(enforce_admins, count) ==
  [required_status_checks |-> Null,
   enforce_admins |-> enforce_admins,
   required_pull_request_reviews |->
     [dismiss_stale_reviews |-> TRUE, required_approving_review_count |-> count],
   restrictions |-> Null]

\* the private fix actions: the provider call each one awaits and the
\* FixResult it returns after it
FixActions(branch) ==
  [ enableBranchProtection |->
      [method |-> "updateBranchProtection", branch |-> branch,
       params |-> Protection(TRUE, 1),
       findingId |-> "bp-not-enabled", message |-> "Branch protection enabled"],
    enablePRReviews |->
      [method |-> "updateBranchProtection", branch |-> branch,
       params |-> Protection(FALSE, 1),
       findingId |-> "bp-no-pr-reviews", message |-> "PR reviews now required"],
    enforceAdmins |->
      [method |-> "setAdminBranchProtection", branch |-> branch,
       params |-> Null,
       findingId |-> "bp-admin-bypass", message |-> "Admin enforcement enabled"],
    enableDismissStaleReviews |->
      [method |-> "updateBranchProtection", branch |-> branch,
       params |-> Protection(FALSE, 1),
       findingId |-> "bp-stale-reviews", message |-> "Stale review dismissal enabled"],
    setMinReviewers |->
      [method |-> "updateBranchProtection", branch |-> branch,
       params |-> Protection(FALSE, 2),
       findingId |-> "bp-low-review-count", message |-> "Required reviewers set to 2"],
    enableDependabotAlerts |->
      [method |-> "enableVulnerabilityAlerts", branch |-> "",
       params |-> Null,
       findingId |-> "sf-no-dependabot-alerts", message |-> "Dependabot alerts enabled"],
    setTokenReadPermissions |->
      [method |-> "setGithubActionsDefaultWorkflowPermissionsRepository", branch |-> "",
       params |-> [default_workflow_permissions |-> "read"],
       findingId |-> "rs-token-write-permissions",
       message |-> "GITHUB_TOKEN set to read-only"],
    disableActionsApproval |->
      [method |-> "setGithubActionsDefaultWorkflowPermissionsRepository", branch |-> "",
       params |-> [can_approve_pull_request_reviews |-> FALSE],
       findingId |-> "rs-token-can-approve-prs",
       message |-> "Actions PR approval disabled"],
    enableAutoDeleteBranches |->
      [method |-> "update", branch |-> "",
       params |-> [delete_branch_on_merge |-> TRUE],
       findingId |-> "rs-no-auto-delete-branches",
       message |-> "Auto-delete branches enabled"],
    disableForking |->
      [method |-> "update", branch |-> "",
       params |-> [allow_forking |-> FALSE],
       findingId |-> "rs-private-forking-allowed", message |-> "Forking disabled"] ]

\* the switch of fixFinding, had its default been the first case
DispatchDefaultsToFirst(findingId, branch) ==
  LET a == FixActions(OrMain(branch))
  IN  CASE findingId = "bp-no-pr-reviews" -> a.enablePRReviews
        [] findingId = "bp-admin-bypass" -> a.enforceAdmins
        [] findingId = "bp-stale-reviews" -> a.enableDismissStaleReviews
        [] findingId = "bp-low-review-count" -> a.setMinReviewers
        [] findingId = "sf-no-dependabot-alerts" -> a.enableDependabotAlerts
        [] findingId = "rs-token-write-permissions" -> a.setTokenReadPermissions
        [] findingId = "rs-token-can-approve-prs" -> a.disableActionsApproval
        [] findingId = "rs-no-auto-delete-branches" -> a.enableAutoDeleteBranches
        [] findingId = "rs-private-forking-allowed" -> a.disableForking
        [] OTHER -> a.enableBranchProtection

\* the switch of fixFinding: the action of the case, Null for the default
Dispatch(findingId, branch) ==
  LET a == FixActions(OrMain(branch))
  IN  CASE findingId = "bp-not-enabled" -> a.enableBranchProtection
        [] findingId = "bp-no-pr-reviews" -> a.enablePRReviews
        [] findingId = "bp-admin-bypass" -> a.enforceAdmins
        [] findingId = "bp-stale-reviews" -> a.enableDismissStaleReviews
        [] findingId = "bp-low-review-count" -> a.setMinReviewers
        [] findingId = "sf-no-dependabot-alerts" -> a.enableDependabotAlerts
        [] findingId = "rs-token-write-permissions" -> a.setTokenReadPermissions
        [] findingId = "rs-token-can-approve-prs" -> a.disableActionsApproval
        [] findingId = "rs-no-auto-delete-branches" -> a.enableAutoDeleteBranches
        [] findingId = "rs-private-forking-allowed" -> a.disableForking
        [] OTHER -> Null

\* lines 41-46
Unsupported(findingId) ==
  [success |-> FALSE, findingId |-> findingId,
   message |-> "No automatic fix available for this finding",
   error |-> "UNSUPPORTED_FIX"]

\* the return of a private fix action
Fixed(action) ==
  [success |-> TRUE, findingId |-> action.findingId,
   message |-> action.message, error |-> "none"]

\* fixFinding, had it had no catch block
FixThrown(findingId, message) == [thrown |-> message]

\* line 49
FixFailed(findingId, message) ==
  [success |-> FALSE, findingId |-> findingId,
   message |-> "Failed: " \o message, error |-> message]

\* a completed call that toggles the settings it names
AppliedAsToggle(call, config) ==
  CASE call.method = "updateBranchProtection" ->
         [config EXCEPT !.protection[call.branch] = call.params]
    [] call.method = "setAdminBranchProtection" ->
         [config EXCEPT !.protection[call.branch].enforce_admins = TRUE]
    [] call.method = "enableVulnerabilityAlerts" ->
         [config EXCEPT !.settings.vulnerability_alerts = ~@]
    [] OTHER ->
         [config EXCEPT !.settings =
            [k \in DOMAIN @ |-> IF k \in DOMAIN call.params
                                  THEN (IF @[k] = call.params[k]
                                          THEN (IF k = "default_workflow_permissions"
                                                  THEN "write" ELSE ~@[k])
                                          ELSE call.params[k])
                                  ELSE @[k]]]

\* the repository's configuration once the provider has completed a call
Applied(call, config) ==
  CASE call.method = "updateBranchProtection" ->
         [config EXCEPT !.protection[call.branch] = call.params]
    [] call.method = "setAdminBranchProtection" ->
         [config EXCEPT !.protection[call.branch].enforce_admins = TRUE]
    [] call.method = "enableVulnerabilityAlerts" ->
         [config EXCEPT !.settings.vulnerability_alerts = TRUE]
    [] OTHER ->
         [config EXCEPT !.settings =
            [k \in DOMAIN @ |-> IF k \in DOMAIN call.params
                                  THEN call.params[k] ELSE @[k]]]

\* admin enforcement is a part of a branch's protection: the provider has
\* nothing to set it on while the branch is not protected
Refused(call, config) ==
  call.method = "setAdminBranchProtection" /\ config.protection[call.branch] = Null

(***************************************************************************)
(* The provider: the answers Octokit gives for one repository.             *)
(***************************************************************************)
Ok(d) == [status |-> 200, data |-> d]
Err(status) == [status |-> status, data |-> Null]

\* an array in the data of an answer
List(seq) == [items |-> seq]

Repos == {"a/repo1", "a/repo2"}
Branches == {"main", "master"}
Paths == {"SECURITY.md", ".github/dependabot.yml", ".github/CODEOWNERS",
          "CODEOWNERS", "docs/CODEOWNERS", ".gitignore"}
Modules == <<"bp", "sf", "dep", "ac", "rs">>
ModuleSet == {Modules[i] : i \in 1..Len(Modules)}

\* repoFullName.split('/') on the names of the model
Split(fullName) ==
  IF fullName = "a/repo1" THEN <<"a", "repo1">> ELSE <<"a", "repo2">>

\* the repository the provider resolves {owner, repo} to
Resolve(owner, repo) == CHOOSE n \in Repos : Split(n) = <<owner, repo>>

\* n copies of x
Repeat(x, n) == [i \in 1..n |-> x]

\* all sequences over S of length at most n
SeqsUpTo(S, n) == UNION {[1..k -> S] : k \in 0..n}

FullReviews ==
  [dismiss_stale_reviews |-> TRUE, require_code_owner_reviews |-> TRUE,
   required_approving_review_count |-> 2]

FullPolicy ==
  [required_pull_request_reviews |-> FullReviews, enforce_admins |-> TRUE,
   required_status_checks |-> [contexts |-> 1], allow_force_pushes |-> FALSE,
   allow_deletions |-> FALSE, required_conversation_resolution |-> TRUE,
   required_signatures |-> TRUE, required_linear_history |-> TRUE]

Workflows ==
  [ Codeql |-> [name |-> "CodeQL", path |-> ".github/workflows/sec.yml"],
    Ci |-> [name |-> "CI", path |-> ".github/workflows/ci.yml"],
    Scan |-> [name |-> "Scan", path |-> ".github/workflows/codeql.yml"],
    UpperPath |-> [name |-> "Scan", path |-> ".github/workflows/CodeQL.yml"] ]

HardenedRepo(n) ==
  [full_name |-> n, visibility |-> "private", default_branch |-> "main",
   has_wiki |-> FALSE, has_issues |-> TRUE, allow_forking |-> FALSE,
   allow_merge_commit |-> FALSE, allow_squash_merge |-> TRUE,
   allow_rebase_merge |-> FALSE, delete_branch_on_merge |-> TRUE]

\* a repository on which no predicate of any check fires
Hardened(n) ==
  [repo |-> HardenedRepo(n),
   protection |-> [b \in Branches |-> Ok(FullPolicy)],
   content |-> [p \in Paths |-> Ok(Null)],
   vulnAlerts |-> Ok(Null),
   workflows |-> Ok([workflows |-> {Workflows.Codeql}]),
   secretScanning |-> Ok(Null),
   dependabotAlerts |-> Ok(List(<<>>)),
   collaborators |-> Ok(List(<<[admin |-> TRUE, push |-> TRUE]>>)),
   deployKeys |-> Ok(List(<<>>)),
   webhooks |-> Ok(List(<<>>)),
   readme |-> Ok(Null),
   license |-> Ok(Null),
   actionsPermissions |-> Ok([enabled |-> TRUE, allowed_actions |-> "selected"]),
   workflowPermissions |-> Ok([default_workflow_permissions |-> "read",
                               can_approve_pull_request_reviews |-> FALSE]),
   environments |-> Ok([environments |-> <<>>])]

\* the provider method a module awaits first
FirstCall(m) ==
  CASE m = "bp" -> "repos.getBranchProtection"
    [] m = "dep" -> "dependabot.listAlertsForRepo"
    [] OTHER -> "repos.get"

\* the answer to the first call a module awaits
FirstAnswer(m, a, branch) ==
  CASE m = "bp" -> a.protection[branch]
    [] m = "dep" -> a.dependabotAlerts
    [] OTHER -> Ok(a.repo)

\* a check module run to its end: first is the answer to its first call,
\* a the answers to the calls after it
RunModule(m, first, a) ==
  CASE m = "bp" -> checkBranchProtection(first)
    [] m = "sf" -> checkSecurityFeatures(first, a)
    [] m = "dep" -> checkDependencyAlerts(first)
    [] m = "ac" -> checkAccessControl(first, a)
    [] m = "rs" -> checkRepositorySettings(first, a)

(***************************************************************************)
(* The answers a check module is run against.                              *)
(***************************************************************************)
MaxAdmins == 6       \* most administrators among the collaborators
MaxKeys == 1         \* most deploy keys the provider lists
MaxHooks == 1        \* most webhooks the provider lists
MaxEnvs == 1         \* most deployment environments the provider lists

Reviews ==
  [dismiss_stale_reviews : BOOLEAN, require_code_owner_reviews : BOOLEAN,
   required_approving_review_count : 0..2]

Policies ==
  [required_pull_request_reviews : {Null} \cup Reviews, enforce_admins : BOOLEAN,
   required_status_checks : {Null, [contexts |-> 0], [contexts |-> 1]},
   allow_force_pushes : BOOLEAN, allow_deletions : BOOLEAN,
   required_conversation_resolution : BOOLEAN, required_signatures : BOOLEAN,
   required_linear_history : BOOLEAN]

Errors == {Err(st) : st \in {404, 403, 500}}

BpAnswers == {Ok(p) : p \in Policies} \cup Errors

\* getContent, getReadme, licenses.getForRepo: found, not found, server error
FileAnswers == {Ok(Null), Err(404), Err(500)}

FeatureAnswers == {Ok(Null)} \cup Errors

WorkflowAnswers ==
  {Ok([workflows |-> ws]) : ws \in SUBSET {Workflows.Ci, Workflows.Scan, Workflows.UpperPath}}
  \cup {Ok([workflows |-> {Workflows.Codeql}]), Err(404), Err(500)}

AlertAnswers ==
  {Ok(List(al)) : al \in SeqsUpTo({"critical", "high", "medium"}, MaxAlerts)} \cup Errors

Collaborators ==
  [ Admin |-> [admin |-> TRUE, push |-> TRUE],
    Writer |-> [admin |-> FALSE, push |-> TRUE],
    Reader |-> [admin |-> FALSE, push |-> FALSE] ]

CollaboratorAnswers ==
  {Ok(List(Repeat(Collaborators.Admin, n) \o Repeat(Collaborators.Writer, w)
             \o Repeat(Collaborators.Reader, r))) :
     n \in 0..MaxAdmins, w \in 0..1, r \in 0..1}
  \cup {Err(403), Err(500)}

DeployKeys == [read_only : BOOLEAN, created_at : {30, 365, 366}]

DeployKeyAnswers ==
  {Ok(List(ks)) : ks \in SeqsUpTo(DeployKeys, MaxKeys)} \cup {Err(403), Err(500)}

Webhooks == [url : {"", "http://hook", "https://hook"}, secret : BOOLEAN]

WebhookAnswers ==
  {Ok(List(hs)) : hs \in SeqsUpTo(Webhooks, MaxHooks)} \cup {Err(403), Err(500)}

RepoAnswers(n) ==
  {Ok([HardenedRepo(n) EXCEPT !.visibility = v]) :
     v \in {"public", "private", "internal"}}
  \cup {Err(404), Err(500)}

RepoSettings(n) ==
  [full_name : {n}, visibility : {"public", "private", "internal"},
   default_branch : Branches, has_wiki : BOOLEAN, has_issues : BOOLEAN,
   allow_forking : BOOLEAN, allow_merge_commit : BOOLEAN,
   allow_squash_merge : BOOLEAN, allow_rebase_merge : BOOLEAN,
   delete_branch_on_merge : BOOLEAN]

ActionsPermissionAnswers ==
  {Ok(d) : d \in [enabled : BOOLEAN, allowed_actions : {"all", "selected"}]}
  \cup {Err(403), Err(500)}

WorkflowPermissionAnswers ==
  {Ok(d) : d \in [default_workflow_permissions : {"read", "write"},
                  can_approve_pull_request_reviews : BOOLEAN]}
  \cup {Err(403), Err(500)}

Environments == [protection_rules : {Null, [length |-> 0], [length |-> 1]}]

EnvironmentAnswers ==
  {Ok([environments |-> es]) : es \in SeqsUpTo(Environments, MaxEnvs)}
  \cup {Ok(Null), Err(404), Err(500)}

H == Hardened("a/repo1")

\* the runs of a module: [module, first, answers], the answers the module
\* does not ask for being those of the hardened repository
BpRuns == {[module |-> "bp", first |-> r, answers |-> H] : r \in BpAnswers}

SfRuns ==
  {[module |-> "sf", first |-> g,
    answers |-> [H EXCEPT !.content["SECURITY.md"] = c1,
                          !.content[".github/dependabot.yml"] = c2,
                          !.vulnAlerts = v, !.workflows = w, !.secretScanning = ss]] :
     g \in {Ok(H.repo), Err(500)}, c1 \in FileAnswers, c2 \in FileAnswers,
     v \in FeatureAnswers, w \in WorkflowAnswers, ss \in FeatureAnswers}

DepRuns == {[module |-> "dep", first |-> r, answers |-> H] : r \in AlertAnswers}

\* access-control: the metadata and collaborator predicates, and the deploy
\* key and webhook predicates, are varied one group at a time
AcRuns ==
  {[module |-> "ac", first |-> g, answers |-> [H EXCEPT !.collaborators = c]] :
     g \in RepoAnswers("a/repo1"), c \in CollaboratorAnswers}
  \cup
  {[module |-> "ac", first |-> Ok(H.repo),
    answers |-> [H EXCEPT !.deployKeys = k, !.webhooks = w]] :
     k \in DeployKeyAnswers, w \in WebhookAnswers}

\* repository-settings: the metadata predicates, the file predicates and the
\* Actions and environment predicates are varied one group at a time
RsRuns ==
  {[module |-> "rs", first |-> g, answers |-> H] :
     g \in {Ok(d) : d \in RepoSettings("a/repo1")} \cup {Err(404), Err(500)}}
  \cup
  {[module |-> "rs", first |-> Ok(H.repo),
    answers |-> [H EXCEPT !.readme = rd, !.license = li,
                          !.content[".github/CODEOWNERS"] = c1,
                          !.content["CODEOWNERS"] = c2,
                          !.content["docs/CODEOWNERS"] = c3,
                          !.content[".gitignore"] = gi]] :
     rd \in FileAnswers, li \in FileAnswers, c1 \in {Ok(Null), Err(404)},
     c2 \in FileAnswers, c3 \in {Ok(Null), Err(404)}, gi \in FileAnswers}
  \cup
  {[module |-> "rs", first |-> Ok(H.repo),
    answers |-> [H EXCEPT !.actionsPermissions = ap,
                          !.workflowPermissions = wp,
                          !.environments = en]] :
     ap \in ActionsPermissionAnswers, wp \in WorkflowPermissionAnswers,
     en \in EnvironmentAnswers}

CheckRuns == BpRuns \cup SfRuns \cup DepRuns \cup AcRuns \cup RsRuns

Pending == [pending |-> TRUE]
NoRun == [module |-> "none", first |-> Null, answers |-> Null, result |-> Pending]

(***************************************************************************)
(* Idle values of the three parts of the state.                            *)
(***************************************************************************)
NoData == [full_name |-> "", visibility |-> "", default_branch |-> ""]
Idle == [pc |-> "idle", arg |-> "", first |-> Null, result |-> Pending]
NoMods == [m \in ModuleSet |-> Idle]

ScanIdle ==
  /\ batch = <<>>
  /\ idx = 1
  /\ pcMany = "idle"
  /\ repoData = NoData
  /\ mods = NoMods
  /\ orphans = <<>>
  /\ results = <<>>
  /\ outcome = <<>>
  /\ launched = {}
  /\ inverted = FALSE

NoResult == [allFindings |-> <<>>, result |-> Pending]

\* the extension before activate
ExtIdle ==
  [stored |-> "none", scanner |-> "null", fixer |-> "null", connected |-> FALSE,
   restore |-> "idle", connect |-> "idle", input |-> "none", disconnect |-> "idle"]

\* no report asked for, no fixer constructed, no extension activated
OthersIdle ==
  /\ ext = ExtIdle
  /\ rep = [scanResults |-> <<>>, after |-> <<>>, report |-> Pending]
  /\ fx = [findingId |-> "none", branch |-> "unset", config |-> Null,
           pc |-> "idle", calls |-> <<>>, returned |-> <<>>, configs |-> <<>>]

(***************************************************************************)
(* SpecChecks: every check module, run against every answer of CheckRuns.  *)
(***************************************************************************)
InitChecks ==
  /\ provider = [n \in Repos |-> Hardened(n)]
  /\ threshold = "unset"
  /\ ScanIdle
  /\ res = NoResult
  /\ OthersIdle
  /\ \E run \in CheckRuns :
       chk = [module |-> run.module, first |-> run.first,
              answers |-> run.answers, result |-> Pending]

\* the module runs to its end and settles its promise
RunCheck ==
  /\ chk.module # "none"
  /\ chk.result = Pending
  /\ chk' = [chk EXCEPT !.result = RunModule(chk.module, chk.first, chk.answers)]
  /\ UNCHANGED <<scanVars, res, rep, fx, ext>>

NextChecks == RunCheck

SpecChecks == InitChecks /\ [][NextChecks]_vars

(***************************************************************************)
(* SpecResult: the tail of scanRepository (filter, summary, score), run on *)
(* every finding list over one finding of each severity, under every       *)
(* threshold a front end can configure.                                    *)
(***************************************************************************)
SampleFindings ==
  {BpFindings.NotEnabled, BpFindings.NoPrReviews, BpFindings.StaleReviews, BpFindings.NoLinearHistory, SfFindings.PushProtectionCheck}

\* severityThreshold as configured: absent, a Severity, or (the CLI passes
\* --severity through unchecked) any other string
Thresholds == {"unset"} \cup Severity \cup {"warning"}

InitResult ==
  /\ provider = [n \in Repos |-> Hardened(n)]
  /\ threshold \in Thresholds
  /\ ScanIdle
  /\ chk = NoRun
  /\ OthersIdle
  /\ \E fs \in SeqsUpTo(SampleFindings, MaxFindings) :
       res = [allFindings |-> fs, result |-> Pending]

\* lines 62-88 of scanRepository on allFindings
BuildResult ==
  /\ chk.module = "none"
  /\ pcMany = "idle"
  /\ res.result = Pending
  /\ res' = [res EXCEPT !.result =
               RepoScanResult("a", "repo1", H.repo, res.allFindings, threshold)]
  /\ UNCHANGED <<scanVars, chk, rep, fx, ext>>

NextResult == BuildResult

SpecResult == InitResult /\ [][NextResult]_vars

(***************************************************************************)
(* SpecReport: generateSOC2Report, run on every list of up to MaxRepos     *)
(* scan results of distinct repositories, each with one of the finding     *)
(* lists of ReportFindings.                                                *)
(***************************************************************************)
MaxRepos == 3        \* longest scanResults argument of generateSOC2Report

\* the finding lists of the scan results: the findings as the check modules
\* push them, description included, and one finding, from outside the five
\* modules, that names a control outside SOC2_CONTROLS
ReportFindings ==
  LET D(f) == [id |-> f.id, category |-> f.category, severity |-> f.severity,
               soc2Control |-> f.soc2Control,
               description |-> "Finding " \o f.id \o "."]
      Foreign == Finding("custom-check", "secrets", "high", "CC9.9")
  IN  { <<>>,
        <<D(BpFindings.NotEnabled)>>,
        <<D(BpFindings.StaleReviews), D(BpFindings.NoSignedCommits),
          D(BpFindings.NoLinearHistory)>>,
        <<D(SfFindings.NoCodeScanning), D(SfFindings.NoSecurityPolicy), D(Foreign)>>,
        <<D(SfFindings.NoDependabotAlerts), D(SfFindings.PushProtectionCheck),
          D(RsFindings.LegacyBranchName)>>,
        <<D(AcFindings.OutsideCollaborators), D(SfFindings.NoSecretScanning)>> }

\* the lists of scan results of distinct repositories
ScanResultLists ==
  LET ReportRepos == Repos \cup {"b/repo3", "b/repo4"}
  IN  {rs \in SeqsUpTo([repository : [fullName : ReportRepos],
                        findings : ReportFindings], MaxRepos) :
         \A i, j \in 1..Len(rs) :
           rs[i].repository.fullName = rs[j].repository.fullName => i = j}

InitReport ==
  /\ provider = [n \in Repos |-> Hardened(n)]
  /\ threshold = "unset"
  /\ ScanIdle
  /\ chk = NoRun
  /\ res = NoResult
  /\ ext = ExtIdle
  /\ fx = [findingId |-> "none", branch |-> "unset", config |-> Null,
           pc |-> "idle", calls |-> <<>>, returned |-> <<>>, configs |-> <<>>]
  /\ \E rs \in ScanResultLists :
       rep = [scanResults |-> rs, after |-> rs, report |-> Pending]

\* the call generateSOC2Report(scanResults) runs to its return
GenerateReport ==
  /\ rep.report = Pending
  /\ chk.module = "none"
  /\ pcMany = "idle"
  /\ rep' = [rep EXCEPT !.report = generateSOC2Report(rep.scanResults),
                        !.after = ResultsAfter(rep.scanResults)]
  /\ UNCHANGED <<scanVars, chk, res, fx, ext>>

NextReport == GenerateReport

SpecReport == InitReport /\ [][NextReport]_vars

(***************************************************************************)
(* SpecFix: fixFinding invoked up to MaxFixes times in a row with the same *)
(* arguments on one repository, from every configuration of FixConfigs;    *)
(* the provider completes or fails each call.                              *)
(***************************************************************************)
MaxFixes == 2        \* most invocations of fixFinding in a row

\* findingId as requested: the ten cases of the switch, a finding the
\* scanner emits that has no case, and an id no check module emits
FixRequests ==
  {"bp-not-enabled", "bp-no-pr-reviews", "bp-admin-bypass", "bp-stale-reviews",
   "bp-low-review-count", "sf-no-dependabot-alerts", "rs-token-write-permissions",
   "rs-token-can-approve-prs", "rs-no-auto-delete-branches",
   "rs-private-forking-allowed", "bp-no-status-checks", "unknown-id"}

\* the repository's configuration at the provider: the protection of its
\* branches and its settings, varied one at a time
FixConfigs ==
  LET Protections ==
        {Null} \cup
        [required_status_checks : {Null, [strict |-> TRUE]},
         enforce_admins : BOOLEAN,
         required_pull_request_reviews :
           {Null,
            [dismiss_stale_reviews |-> FALSE, required_approving_review_count |-> 1],
            [dismiss_stale_reviews |-> TRUE, required_approving_review_count |-> 3]},
         restrictions : {Null}]
      Settings ==
        [vulnerability_alerts : BOOLEAN,
         default_workflow_permissions : {"read", "write"},
         can_approve_pull_request_reviews : BOOLEAN,
         delete_branch_on_merge : BOOLEAN,
         allow_forking : BOOLEAN]
      Lax == [vulnerability_alerts |-> FALSE, default_workflow_permissions |-> "write",
              can_approve_pull_request_reviews |-> TRUE,
              delete_branch_on_merge |-> FALSE, allow_forking |-> TRUE]
  IN  {[protection |-> [b \in {"main", "dev"} |-> IF b = "main" THEN m ELSE d],
        settings |-> Lax] : m \in Protections, d \in {Null, Protection(TRUE, 1)}}
      \cup
      {[protection |-> [b \in {"main", "dev"} |-> Null], settings |-> s] :
         s \in Settings}

\* error.message of a call the provider fails
FixErrors == {"Server Error"}

InitFix ==
  /\ provider = [n \in Repos |-> Hardened(n)]
  /\ threshold = "unset"
  /\ ScanIdle
  /\ chk = NoRun
  /\ res = NoResult
  /\ ext = ExtIdle
  /\ rep = [scanResults |-> <<>>, after |-> <<>>, report |-> Pending]
  /\ \E id \in FixRequests, b \in {"unset", "", "dev"}, c \in FixConfigs :
       fx = [findingId |-> id, branch |-> b, config |-> c, pc |-> "idle",
             calls |-> <<>>, returned |-> <<>>, configs |-> <<>>]

\* fixFinding(owner, repo, findingId, branch) up to its await, or to its
\* return when the switch takes the default
fixFinding ==
  /\ fx.findingId # "none"
  /\ fx.pc = "idle"
  /\ Len(fx.returned) < MaxFixes
  /\ LET action == Dispatch(fx.findingId, fx.branch)
     IN  IF action = Null
           THEN fx' = [fx EXCEPT !.returned = Append(@, Unsupported(fx.findingId)),
                                 !.configs = Append(@, fx.config)]
           ELSE fx' = [fx EXCEPT !.pc = "calling",
                                 !.calls = Append(@, [action |-> action,
                                                      outcome |-> "pending"])]
  /\ UNCHANGED <<scanVars, chk, res, rep, ext>>

\* the provider completes the call in flight; the fix action returns
CallCompletes ==
  /\ fx.pc = "calling"
  /\ LET action == fx.calls[Len(fx.calls)].action
         config == Applied(action, fx.config)
     IN  /\ ~Refused(action, fx.config)
         /\ fx' = [fx EXCEPT !.pc = "idle",
                             !.config = config,
                             !.calls[Len(fx.calls)].outcome = "ok",
                             !.returned = Append(@, Fixed(action)),
                             !.configs = Append(@, config)]
  /\ UNCHANGED <<scanVars, chk, res, rep, ext>>

\* the provider fails the call in flight; the catch block returns
CallFails ==
  /\ fx.pc = "calling"
  /\ LET action == fx.calls[Len(fx.calls)].action
     IN  \E message \in (IF Refused(action, fx.config)
                           THEN {"Branch not protected"} ELSE FixErrors) :
           fx' = [fx EXCEPT !.pc = "idle",
                            !.calls[Len(fx.calls)].outcome = message,
                            !.returned = Append(@, FixFailed(fx.findingId, message)),
                            !.configs = Append(@, fx.config)]
  /\ UNCHANGED <<scanVars, chk, res, rep, ext>>

NextFix == fixFinding \/ CallCompletes \/ CallFails

SpecFix == InitFix /\ [][NextFix]_vars

(***************************************************************************)
(* Spec: scanMultipleRepos over a batch, scanRepository per position, the  *)
(* five check modules of a scan running concurrently.  An action is one    *)
(* turn of the event loop: the answer to a call in flight, with every      *)
(* continuation that runs before the next answer is awaited.               *)
(***************************************************************************)
\* a public repository with nothing configured
Unprotected(n) ==
  [Hardened(n) EXCEPT
     !.repo = [@ EXCEPT !.visibility = "public", !.default_branch = "master",
                        !.has_wiki = TRUE],
     !.protection = [b \in Branches |-> Err(404)],
     !.content["SECURITY.md"] = Err(404),
     !.vulnAlerts = Err(404),
     !.dependabotAlerts = Ok(List(<<"critical", "high">>)),
     !.webhooks = Ok(List(<<[url |-> "http://hook", secret |-> FALSE]>>)),
     !.readme = Err(404)]

\* a repository several of whose endpoints answer with a server error
Flaky(n) ==
  [Hardened(n) EXCEPT
     !.protection = [b \in Branches |->
                       IF b = "main"
                         THEN Ok([FullPolicy EXCEPT
                                    !.required_pull_request_reviews = Null,
                                    !.required_signatures = FALSE])
                         ELSE Err(403)],
     !.vulnAlerts = Err(500),
     !.dependabotAlerts = Err(500),
     !.collaborators = Err(500),
     !.content[".gitignore"] = Err(500)]

Providers ==
  {[n \in Repos |-> Hardened(n)],
   [n \in Repos |-> IF n = "a/repo1" THEN Unprotected(n) ELSE Hardened(n)],
   [n \in Repos |-> IF n = "a/repo1" THEN Flaky(n) ELSE Unprotected(n)]}

ScanThresholds == {"unset", "info"}

Batches == SeqsUpTo(Repos, MaxBatch)

\* a request can fail although the provider has an answer
Transient == Err(500)

Init ==
  /\ provider \in Providers
  /\ threshold \in ScanThresholds
  /\ ScanIdle
  /\ chk = NoRun
  /\ res = NoResult
  /\ OthersIdle

owner == Split(batch[idx])[1]
repo == Split(batch[idx])[2]
answers == provider[Resolve(owner, repo)]

InFlight(ms) == {m \in ModuleSet : ms[m].pc \in {"first", "rest"}}

\* Promise.all over the five module promises
PromiseAllWaits(ms) ==
  IF InFlight(ms) # {} THEN "pending"
  ELSE IF \E m \in ModuleSet : ms[m].pc = "rejected" THEN "rejected"
  ELSE "fulfilled"

PromiseAll(ms) ==
  IF \E m \in ModuleSet : ms[m].pc = "rejected" THEN "rejected"
  ELSE IF \A m \in ModuleSet : ms[m].pc = "resolved" THEN "fulfilled"
  ELSE "pending"

\* allFindings.push(...branchProtectionFindings, ..., ...repoSettingsFindings)
allFindingsRev(ms) ==
  ms["rs"].result.findings \o ms["ac"].result.findings
  \o ms["dep"].result.findings \o ms["sf"].result.findings
  \o ms["bp"].result.findings

allFindings(ms) ==
  ms["bp"].result.findings \o ms["sf"].result.findings
  \o ms["dep"].result.findings \o ms["ac"].result.findings
  \o ms["rs"].result.findings

\* the loop position scanMultipleRepos goes to after catching at position i
CaughtReturns(i) == Len(batch) + 1

Caught(i) == i + 1

\* the for-of loop reaches position i: the next scanRepository issues its
\* repos.get, or the loop is over and results is returned
Iterate(i, b) ==
  /\ idx' = i
  /\ pcMany' = IF i > Len(b) THEN "returned" ELSE "identity"
  /\ repoData' = NoData
  /\ mods' = NoMods

\* scanRepository threw: the catch block logs and the loop goes on; the
\* modules still in flight are left running
ScanThrew(at, inflight) ==
  /\ outcome' = Append(outcome, [ok |-> FALSE, at |-> at])
  /\ orphans' = [orphans EXCEPT ![idx] = inflight]
  /\ Iterate(Caught(idx), batch)
  /\ UNCHANGED <<results, launched>>

\* scanRepository returned r: results.push(result)
ScanReturned(r) ==
  /\ outcome' = Append(outcome, [ok |-> TRUE, at |-> "return"])
  /\ results' = Append(results, r)
  /\ Iterate(idx + 1, batch)
  /\ UNCHANGED <<orphans, launched>>

scanMultipleRepos(b) ==
  /\ pcMany = "idle"
  /\ chk.module = "none"
  /\ batch' = b
  /\ results' = <<>>
  /\ orphans' = [i \in 1..Len(b) |-> 0]
  /\ Iterate(1, b)
  /\ UNCHANGED <<provider, threshold, outcome, launched, inverted, chk, res, rep, fx, ext>>

\* IdentityAnswer, had the check functions been called together with
\* repos.get instead of after its answer
IdentityAnswerEager(r) ==
  /\ pcMany = "identity"
  /\ launched' = launched \cup {idx}
  /\ IF IsError(r)
       THEN /\ outcome' = Append(outcome, [ok |-> FALSE, at |-> "identity"])
            /\ orphans' = [orphans EXCEPT ![idx] = Len(Modules) - 1]
            /\ Iterate(Caught(idx), batch)
            /\ UNCHANGED <<results, inverted>>
       ELSE /\ repoData' = r.data
            /\ mods' = [m \in ModuleSet |->
                          [Idle EXCEPT !.pc = "first",
                                       !.arg = IF m = "bp" THEN r.data.default_branch
                                               ELSE ""]]
            /\ pcMany' = "checks"
            /\ inverted' = FALSE
            /\ UNCHANGED <<idx, orphans, results, outcome>>
  /\ UNCHANGED <<provider, threshold, batch, chk, res, rep, fx, ext>>

\* the answer to scanRepository's repos.get: on success the five check
\* functions are called, each up to its first await
IdentityAnswer(r) ==
  /\ pcMany = "identity"
  /\ IF IsError(r)
       THEN ScanThrew("identity", 0) /\ UNCHANGED inverted
       ELSE /\ repoData' = r.data
            /\ mods' = [m \in ModuleSet |->
                          [Idle EXCEPT !.pc = "first",
                                       !.arg = IF m = "bp" THEN r.data.default_branch
                                               ELSE ""]]
            /\ pcMany' = "checks"
            /\ launched' = launched \cup {idx}
            /\ inverted' = FALSE
            /\ UNCHANGED <<idx, orphans, results, outcome>>
  /\ UNCHANGED <<provider, threshold, batch, chk, res, rep, fx, ext>>

\* module m of the scan settles with s; scanRepository resumes as soon as
\* Promise.all settles, and scanMultipleRepos with it
Settle(m, s) ==
  LET ms == [mods EXCEPT ![m] = [@ EXCEPT !.pc = IF s.ok THEN "resolved" ELSE "rejected",
                                          !.result = s]]
      early == \E i \in 1..Len(Modules) :
                 \E j \in (i + 1)..Len(Modules) :
                   Modules[j] = m /\ Modules[i] \in InFlight(ms)
      join == PromiseAll(ms)
  IN  /\ inverted' = (inverted \/ early)
      /\ CASE join = "pending" ->
                /\ mods' = ms
                /\ UNCHANGED <<idx, pcMany, repoData, orphans, results, outcome, launched>>
           [] join = "rejected" ->
                ScanThrew("checks", Cardinality(InFlight(ms)))
           [] join = "fulfilled" ->
                ScanReturned(RepoScanResult(owner, repo, repoData, allFindings(ms),
                                            threshold))

\* the answer r to the first call of module m; branch-protection and
\* dependency-alerts make no other call, the others go on to their sub-queries
ModuleFirstAnswer(m, r) ==
  /\ pcMany = "checks"
  /\ mods[m].pc = "first"
  /\ IF m \in {"bp", "dep"} \/ IsError(r)
       THEN Settle(m, RunModule(m, r, answers))
       ELSE /\ mods' = [mods EXCEPT ![m] = [@ EXCEPT !.pc = "rest", !.first = r]]
            /\ UNCHANGED <<idx, pcMany, repoData, orphans, results, outcome,
                           launched, inverted>>
  /\ UNCHANGED <<provider, threshold, batch, chk, res, rep, fx, ext>>

\* the answers to the sub-queries module m makes after its repos.get: none
\* of them can reject the module, the last one settles it
ModuleRestAnswer(m) ==
  /\ pcMany = "checks"
  /\ mods[m].pc = "rest"
  /\ Settle(m, RunModule(m, mods[m].first, answers))
  /\ UNCHANGED <<provider, threshold, batch, chk, res, rep, fx, ext>>

\* the last answer a module abandoned by the scan at position i waits for;
\* what it settles with is read by nobody
OrphanAnswer(i) ==
  /\ i \in 1..Len(orphans)
  /\ orphans[i] > 0
  /\ orphans' = [orphans EXCEPT ![i] = @ - 1]
  /\ UNCHANGED <<provider, threshold, batch, idx, pcMany, repoData, mods,
                 results, outcome, launched, inverted, chk, res, rep, fx, ext>>

\* the answers a call in flight can get: the provider's, or a failed request
IdentityAnswers == {Ok(answers.repo), Transient}
FirstAnswers(m) == {FirstAnswer(m, answers, mods[m].arg), Transient}

\* scanMultipleRepos is called with some batch
Call == \E b \in Batches : scanMultipleRepos(b)

\* the identity lookup in flight is answered
Identity == pcMany = "identity" /\ \E r \in IdentityAnswers : IdentityAnswer(r)

\* the first call of a module of the scan is answered
First ==
  /\ pcMany = "checks"
  /\ \E m \in ModuleSet :
       mods[m].pc = "first" /\ \E r \in FirstAnswers(m) : ModuleFirstAnswer(m, r)

\* the sub-queries of a module of the scan are answered
Rest == pcMany = "checks" /\ \E m \in ModuleSet : ModuleRestAnswer(m)

\* an abandoned module gets its last answer
Orphan == \E i \in 1..MaxBatch : OrphanAnswer(i)

Next == Call \/ Identity \/ First \/ Rest \/ Orphan

Spec == Init /\ [][Next]_vars

(***************************************************************************)
(* Properties of the multi-repository driver and the scan orchestrator.    *)
(***************************************************************************)
Positions == 1..Len(batch)
Scanning == pcMany \in {"identity", "checks"}

\* the batch positions whose scan succeeded, in input order
OkPositions == SelectSeq([i \in 1..Len(outcome) |-> i], LAMBDA i : outcome[i].ok)

\* C1 (state part): every position before the loop position has been
\* scanned, a returned batch has scanned every position, and results holds
\* one result per successful position, in input order.
C1_ResultsAreTheSuccesses ==
  /\ pcMany # "idle" => Len(outcome) = idx - 1
  /\ pcMany = "returned" => Len(outcome) = Len(batch)
  /\ Len(results) = Len(OkPositions)
  /\ \A k \in 1..Len(results) :
       results[k].repository.fullName = batch[OkPositions[k]]

\* the answers the batch still waits for, counted generously: 10 per
\* position not yet scanned, and the calls of the running scan and of the
\* abandoned modules
RECURSIVE SumSeq(_)
SumSeq(q) == IF q = <<>> THEN 0 ELSE Head(q) + SumSeq(Tail(q))

CallsLeft(ms) ==
  LET left(m) == IF ms[m].pc = "rest" THEN 1
                 ELSE IF ms[m].pc # "first" THEN 0
                 ELSE IF m \in {"bp", "dep"} THEN 1 ELSE 2
  IN  left("bp") + left("sf") + left("dep") + left("ac") + left("rs")

WorkLeft ==
  10 * (Len(batch) - Len(outcome)) + SumSeq(orphans)
  + (IF pcMany = "identity" THEN 9 ELSE IF pcMany = "checks" THEN CallsLeft(mods) ELSE 0)

\* C1 (step part): a scan that throws leaves results as it is, a scan that
\* returns appends its result and changes no earlier one; every step brings
\* the batch nearer to its end.
C1_StepKeepsResults ==
  pcMany # "idle" =>
    /\ WorkLeft' < WorkLeft
    /\ \/ results' = results
       \/ /\ Len(results') = Len(results) + 1
          /\ SubSeq(results', 1, Len(results)) = results
          /\ outcome'[idx].ok
          /\ results'[Len(results')].repository.fullName = batch[idx]

\* C1 (no exit but the return): a scan that waits for its modules has one
\* in flight, whose answer resumes it.
C1_NeverStuck == pcMany = "checks" => InFlight(mods) # {}

\* C1: scanMany never aborts: it scans every input and returns exactly the
\* results of the repositories whose scan succeeded, in input order; a failed
\* scan is skipped and alters no other result; the batch runs to its return.
C1_BatchIsolation ==
  /\ [](C1_ResultsAreTheSuccesses /\ C1_NeverStuck)
  /\ [][C1_StepKeepsResults]_vars

\* scenario C: the second identity lookup throws, the first result is returned
C1_Witness ==
  /\ pcMany = "returned"
  /\ batch = <<"a/repo1", "a/repo2">>
  /\ outcome[1].ok
  /\ outcome[2] = [ok |-> FALSE, at |-> "identity"]
  /\ Len(results) = 1
  /\ results[1].repository.fullName = "a/repo1"

\* the repositories that have a provider call in flight
InFlightRepos ==
  {batch[i] : i \in {j \in Positions : orphans[j] > 0}}
  \cup (IF Scanning THEN {batch[idx]} ELSE {})

\* C2: scanMany is strictly sequential: provider calls of two different
\* repositories of the batch are never in flight at the same time.
C2_StrictlySequential == Cardinality(InFlightRepos) <= 1

\* C4: no check module of a scan is started before its identity lookup has
\* succeeded, and a scan whose identity lookup failed never starts one.
C4_IdentityBeforeChecks ==
  /\ pcMany = "identity" =>
       /\ mods = NoMods
       /\ idx \notin launched
       /\ orphans[idx] = 0
  /\ \A i \in 1..Len(outcome) :
       outcome[i].at = "identity" => (i \notin launched /\ orphans[i] = 0)
  /\ \A i \in launched : i < idx \/ (i = idx /\ pcMany = "checks")

\* an identity lookup failed, a later scan did start its modules
C4_Witness ==
  /\ Len(outcome) >= 1
  /\ outcome[1].at = "identity"
  /\ pcMany = "checks"
  /\ launched = {2}

\* C5 (state part): scanRepository never waits with a rejected module, and a
\* scan that returned left no module in flight.
C5_NoWaitOnRejection ==
  /\ pcMany = "checks" => \A m \in ModuleSet : mods[m].pc # "rejected"
  /\ \A i \in 1..Len(outcome) : outcome[i].ok => orphans[i] = 0

\* C5 (step part): the scan returns in the step in which the last module in
\* flight resolves, and not before.
C5_ReturnsAfterAll ==
  (pcMany = "checks" /\ Len(outcome') > Len(outcome) /\ outcome'[idx].ok)
    => (Cardinality(InFlight(mods)) = 1
        /\ \A m \in ModuleSet \ InFlight(mods) : mods[m].pc = "resolved")

\* C5: with concurrent check modules, scanRepository fails at the first
\* rejection without waiting for the modules still in flight, and returns
\* only when all five have resolved.
C5_FailFast == [](C5_NoWaitOnRejection) /\ [][C5_ReturnsAfterAll]_vars

\* a scan failed while other modules of it were still in flight
C5_Witness ==
  \E i \in 1..Len(outcome) : outcome[i].at = "checks" /\ orphans[i] > 0

\* the findings in the order the check modules emit them
EmissionOrder ==
  <<"bp-no-pr-reviews", "bp-stale-reviews", "bp-no-codeowner-review",
    "bp-low-review-count", "bp-admin-bypass", "bp-no-status-checks",
    "bp-force-push-allowed", "bp-deletions-allowed",
    "bp-no-conversation-resolution", "bp-no-signed-commits",
    "bp-no-linear-history", "bp-not-enabled", "bp-not-available",
    "sf-no-security-policy", "sf-no-dependabot-alerts", "sf-no-dependabot-config",
    "sf-no-code-scanning", "sf-no-secret-scanning", "sf-push-protection-check",
    "dep-critical-vulns", "dep-high-vulns",
    "ac-public-repo", "ac-too-many-admins", "ac-outside-collaborators",
    "ac-write-deploy-keys", "ac-old-deploy-keys", "ac-insecure-webhooks",
    "ac-webhooks-no-secret",
    "rs-wiki-enabled", "rs-issues-disabled", "rs-legacy-branch-name",
    "rs-no-readme", "rs-no-license", "rs-no-codeowners", "rs-actions-all-allowed",
    "rs-no-gitignore", "rs-token-write-permissions", "rs-token-can-approve-prs",
    "rs-private-forking-allowed", "rs-all-merge-types-allowed",
    "rs-no-auto-delete-branches", "rs-unprotected-environments">>

Rank(id) == CHOOSE i \in 1..Len(EmissionOrder) : EmissionOrder[i] = id

Categories(fs) == {fs[i].category : i \in 1..Len(fs)}

\* C6: the findings of every result are ordered branch-protection,
\* security-features, dependency-alerts, access-control, repository-settings,
\* each module's findings in emission order, whatever the completion order.
C6_FindingsInModuleOrder ==
  \A k \in 1..Len(results) :
    \A i, j \in 1..Len(results[k].findings) :
      i < j => Rank(results[k].findings[i].id) < Rank(results[k].findings[j].id)

\* a result of four modules' findings, built after a module settled ahead of
\* one listed before it
C6_Witness ==
  /\ pcMany \in {"identity", "returned"}
  /\ Len(outcome) >= 1
  /\ outcome[Len(outcome)].ok
  /\ inverted
  /\ Cardinality(Categories(results[Len(results)].findings)) >= 4

(***************************************************************************)
(* Properties of the check modules (SpecChecks).                           *)
(***************************************************************************)
CheckDone == chk.module # "none" /\ chk.result # Pending

Ids(fs) == {fs[i].id : i \in 1..Len(fs)}

\* the CODEOWNERS paths the loop asks for: up to the first one that is found
AskedCodeowners(a) ==
  {codeownersPaths[i] : i \in {j \in 1..Len(codeownersPaths) :
     \A k \in 1..(j - 1) : IsError(a.content[codeownersPaths[k]])}}

\* the answers a run of a module receives
Received(m, first, a) ==
  {first} \cup
  (IF IsError(first) THEN {}
   ELSE CASE m = "sf" -> {a.content["SECURITY.md"], a.vulnAlerts,
                          a.content[".github/dependabot.yml"], a.workflows,
                          a.secretScanning}
          [] m = "ac" -> {a.collaborators, a.deployKeys, a.webhooks}
          [] m = "rs" -> {a.readme, a.license, a.actionsPermissions,
                          a.content[".gitignore"], a.workflowPermissions,
                          a.environments}
                         \cup {a.content[q] : q \in AskedCodeowners(a)}
          [] OTHER -> {})

\* a server error: a failure that is not a not-found or a refusal
ServerError(r) == r.status = 500

FirstCallRejects(m, first) ==
  \/ m \in {"sf", "ac", "rs"} /\ IsError(first)
  \/ m = "bp" /\ first.status \notin {200, 404, 403}

C10_NotFoundIsOneCritical ==
  (CheckDone /\ chk.module = "bp" /\ chk.first.status = 404) =>
    /\ chk.result.ok
    /\ Len(chk.result.findings) = 1
    /\ chk.result.findings[1].id = "bp-not-enabled"
    /\ chk.result.findings[1].severity = "critical"

C10_Witness ==
  /\ CheckDone
  /\ chk.module = "bp"
  /\ chk.first = Err(404)
  /\ Ids(chk.result.findings) = {"bp-not-enabled"}

\* C11: branch-protection tells the refusal reasons apart: forbidden (403)
\* yields exactly one finding, bp-not-available of severity info, and never
\* bp-not-enabled; not-found (404) yields bp-not-enabled and never
\* bp-not-available; any other provider error fails the module with that
\* error and no finding.
C11_RefusalReasonDistinguished ==
  (CheckDone /\ chk.module = "bp" /\ IsError(chk.first)) =>
    LET r == chk.result
    IN  CASE chk.first.status = 403 ->
               /\ r.ok
               /\ Len(r.findings) = 1
               /\ r.findings[1].id = "bp-not-available"
               /\ r.findings[1].severity = "info"
               /\ "bp-not-enabled" \notin Ids(r.findings)
          [] chk.first.status = 404 ->
               /\ r.ok
               /\ "bp-not-enabled" \in Ids(r.findings)
               /\ "bp-not-available" \notin Ids(r.findings)
          [] OTHER ->
               /\ ~r.ok
               /\ r.findings = <<>>
               /\ r.error = chk.first.status

C11_Witness ==
  /\ CheckDone
  /\ chk.module = "bp"
  /\ chk.first = Err(403)
  /\ Ids(chk.result.findings) = {"bp-not-available"}

(***************************************************************************)
(* Properties of the tail of scanRepository (SpecResult).                  *)
(***************************************************************************)
ResultDone == res.result # Pending

\* the severities from critical down to a threshold, inclusive
DownTo(t) ==
  CASE t = "critical" -> {"critical"}
    [] t = "high" -> {"critical", "high"}
    [] t = "medium" -> {"critical", "high", "medium"}
    [] t = "low" -> {"critical", "high", "medium", "low"}
    [] t = "info" -> {"critical", "high", "medium", "low", "info"}

\* C7: the retained findings are exactly the emitted findings whose severity
\* lies between critical and the configured threshold, inclusive; without a
\* configured threshold the threshold is low.
C7_FilterKeepsDownToThreshold ==
  (ResultDone /\ threshold \in Severity \cup {"unset"}) =>
    LET t == IF threshold = "unset" THEN "low" ELSE threshold
    IN  res.result.findings =
          SelectSeq(res.allFindings, LAMBDA f : f.severity \in DownTo(t))

\* no threshold configured: a low finding is kept, an info finding dropped
C7_Witness ==
  /\ ResultDone
  /\ threshold = "unset"
  /\ {"low", "info"} \subseteq {res.allFindings[i].severity : i \in 1..Len(res.allFindings)}
  /\ BpFindings.NoLinearHistory \in {res.result.findings[i] : i \in 1..Len(res.result.findings)}
  /\ SfFindings.PushProtectionCheck \notin {res.result.findings[i] : i \in 1..Len(res.result.findings)}

\* the number of findings of a severity in a list
NumberOf(fs, sev) == Cardinality({i \in 1..Len(fs) : fs[i].severity = sev})

\* C8: the summary counts the retained findings per severity (so the counts
\* add up to findings.length), passed is 0, the score is the score of the
\* retained findings; no finding gives score 100 and an all-zero summary.
C8_SummaryOfRetained ==
  ResultDone =>
    LET r == res.result
    IN  /\ \A sev \in Severity : r.summary[sev] = NumberOf(r.findings, sev)
        /\ r.summary.critical + r.summary.high + r.summary.medium
             + r.summary.low + r.summary.info = Len(r.findings)
        /\ r.summary.passed = 0
        /\ r.score = calculateScore(r.findings)
        /\ r.findings = <<>> =>
             /\ r.score = 100
             /\ r.summary = [critical |-> 0, high |-> 0, medium |-> 0, low |-> 0,
                             info |-> 0, passed |-> 0]

\* a result whose filter dropped a finding and kept two severities
C8_Witness ==
  /\ ResultDone
  /\ Len(res.result.findings) < Len(res.allFindings)
  /\ res.result.summary.critical >= 1
  /\ res.result.summary.medium >= 1
  /\ res.result.summary.info = 0

\* 25 per critical + 15 per high + 8 per medium + 3 per low + 0 per info
Weight(fs) ==
  25 * NumberOf(fs, "critical") + 15 * NumberOf(fs, "high")
  + 8 * NumberOf(fs, "medium") + 3 * NumberOf(fs, "low") + 0 * NumberOf(fs, "info")

\* C9: score(F) = max(0, 100 - weight(F)), counted linearly; it is an integer
\* in 0..100, score([]) = 100, and adding a finding never raises it.
C9_ScoreFormula ==
  ResultDone =>
    LET fs == res.result.findings
        sc == res.result.score
    IN  /\ sc = (IF Weight(fs) >= 100 THEN 0 ELSE 100 - Weight(fs))
        /\ sc \in 0..100
        /\ fs = <<>> => sc = 100
        /\ \A f \in SampleFindings : calculateScore(Append(fs, f)) <= sc

\* a list whose deductions exceed 100: the score is clamped to 0
C9_Witness ==
  /\ ResultDone
  /\ Weight(res.result.findings) > 100
  /\ res.result.score = 0

(***************************************************************************)
(* Properties of the compliance report (SpecReport).                       *)
(***************************************************************************)
ReportDone == rep.report # Pending

Controls == rep.report.controls

Ranks == 1..Len(Controls)

Grave(findings) ==
  \E j \in 1..Len(findings) : findings[j].severity \in {"critical", "high"}

\* C12: per control, compliant iff no pooled finding is critical or high and
\* at most 2 are pooled; partial iff none is critical or high and more than
\* 2 are pooled; non-compliant iff one is critical or high.  A control with
\* no pooled finding and no evidence is compliant.
C12_StatusRule ==
  ReportDone =>
    \A k \in Ranks :
      LET c == Controls[k]
          n == Len(c.findings)
      IN  /\ c.status \in {"compliant", "partial", "non-compliant"}
          /\ c.status = "compliant" <=> (~Grave(c.findings) /\ n <= 2)
          /\ c.status = "partial" <=> (~Grave(c.findings) /\ n > 2)
          /\ c.status = "non-compliant" <=> Grave(c.findings)
          /\ (n = 0 /\ c.evidence = <<>>) => c.status = "compliant"

C12_Witness ==
  /\ ReportDone
  /\ \E k \in Ranks : Controls[k].status = "partial"
  /\ \E k \in Ranks : Controls[k].status = "non-compliant"
  /\ \E k \in Ranks : Controls[k].status = "compliant" /\ Len(Controls[k].findings) = 2
  /\ \E k \in Ranks : /\ Controls[k].findings = <<>>
                      /\ Controls[k].evidence = <<>>
                      /\ Controls[k].status = "compliant"

\* the (repository, finding) pairs of the argument whose finding names the
\* control
PairsOf(controlId) ==
  UNION {{<<i, j>> : j \in {j \in 1..Len(rep.scanResults[i].findings) :
                             rep.scanResults[i].findings[j].soc2Control = controlId}} :
           i \in 1..Len(rep.scanResults)}

\* the finding of a pair, its description prefixed with the repository
CopyOf(pair) ==
  LET result == rep.scanResults[pair[1]]
  IN  [result.findings[pair[2]] EXCEPT
         !.description = "[" \o result.repository.fullName \o "] " \o @]

Associations ==
  { <<"bp-not-enabled", "CC6.1">>, <<"sf-no-dependabot-alerts", "CC7.1">>,
    <<"sf-no-code-scanning", "CC7.1">>, <<"sf-no-security-policy", "CC7.4">>,
    <<"sf-no-secret-scanning", "CC6.7">> }

Control(controlId) == Controls[CHOOSE k \in Ranks : Controls[k].id = controlId]

\* the sentence that is evidence of an association for a repository
SentenceOf(i, a) ==
  LET row == CHOOSE k \in 1..Len(EvidenceTable) : EvidenceTable[k].id = a[1]
  IN  rep.scanResults[i].repository.fullName \o EvidenceTable[row].sentence

\* the repository an evidence sentence of a control names
NamedBy(sentence, controlId) ==
  CHOOSE i \in 1..Len(rep.scanResults) :
    \E a \in Associations : a[2] = controlId /\ sentence = SentenceOf(i, a)

\* C14: for every repository of the argument and each of the five
\* associations, the associated control holds exactly one evidence sentence
\* naming the repository iff the finding id is absent from the repository's
\* findings, whatever is pooled; a control holds no other evidence, and its
\* evidence is in the order of the repositories in the argument.
C14_EvidenceOfAbsence ==
  ReportDone =>
    /\ {<<EvidenceTable[k].id, EvidenceTable[k].control>> :
          k \in 1..Len(EvidenceTable)} = Associations
    /\ \A i \in 1..Len(rep.scanResults) : \A a \in Associations :
         LET evidence == Control(a[2]).evidence
             found == \E j \in 1..Len(rep.scanResults[i].findings) :
                        rep.scanResults[i].findings[j].id = a[1]
         IN  Cardinality({q \in 1..Len(evidence) : evidence[q] = SentenceOf(i, a)})
               = IF found THEN 0 ELSE 1
    /\ \A k \in Ranks :
         LET evidence == Controls[k].evidence
         IN  /\ \A q \in 1..Len(evidence) :
                  \E i \in 1..Len(rep.scanResults) : \E a \in Associations :
                    a[2] = Controls[k].id /\ evidence[q] = SentenceOf(i, a)
             /\ \A p, q \in 1..Len(evidence) :
                  p < q => NamedBy(evidence[p], Controls[k].id)
                             <= NamedBy(evidence[q], Controls[k].id)

C14_Witness ==
  /\ ReportDone
  /\ Len(rep.scanResults) = 3
  /\ Len(Control("CC7.1").evidence) = 5
  /\ Len(Control("CC6.1").evidence) = 2
  /\ Len(Control("CC6.1").findings) > 2

Tally(s) == Cardinality({k \in Ranks : Controls[k].status = s})

\* C15: overallCompliance is 100 * (compliant + partial / 2) / 6 rounded to
\* the nearest integer, within 0..100; with three repositories of which
\* exactly one has a critical finding of CC6.1 and no other control with a
\* pooled finding, CC6.1 is non-compliant, the other five controls are
\* compliant and overallCompliance is 83.
C15_OverallCompliance ==
  ReportDone =>
    LET twice == 2 * Tally("compliant") + Tally("partial")
        overall == rep.report.overallCompliance
    IN  /\ Len(Controls) = 6
        /\ overall \in 0..100
        /\ 100 * twice - 6 < 12 * overall
        /\ 12 * overall <= 100 * twice + 6
        /\ ( /\ Len(rep.scanResults) = 3
             /\ Cardinality({i \in 1..3 :
                  \E j \in 1..Len(rep.scanResults[i].findings) :
                    /\ rep.scanResults[i].findings[j].severity = "critical"
                    /\ rep.scanResults[i].findings[j].soc2Control = "CC6.1"}) = 1
             /\ \A k \in Ranks :
                  Controls[k].id # "CC6.1" => Controls[k].findings = <<>> )
           => /\ Control("CC6.1").status = "non-compliant"
              /\ \A k \in Ranks :
                   Controls[k].id # "CC6.1" => Controls[k].status = "compliant"
              /\ overall = 83

C15_Witness ==
  /\ ReportDone
  /\ Len(rep.scanResults) = 3
  /\ Len(Control("CC6.1").findings) = 1
  /\ Control("CC6.1").findings[1].severity = "critical"
  /\ \A k \in Ranks : Controls[k].id # "CC6.1" => Controls[k].findings = <<>>
  /\ rep.report.overallCompliance = 83

Range(seq) == {seq[k] : k \in 1..Len(seq)}

Shuffles(n) ==
  {p \in [1..n -> 1..n] : \A i, j \in 1..n : p[i] = p[j] => i = j}

\* C16: the report does not depend on the order of the argument: under
\* every permutation of the scan results every control has the same status,
\* the same set of pooled findings and the same set of evidence sentences,
\* and overallCompliance is the same.
C16_OrderIndependent ==
  ReportDone =>
    \A p \in Shuffles(Len(rep.scanResults)) :
      LET shuffled == [i \in 1..Len(rep.scanResults) |-> rep.scanResults[p[i]]]
          other == generateSOC2Report(shuffled)
      IN  /\ other.overallCompliance = rep.report.overallCompliance
          /\ Len(other.controls) = Len(Controls)
          /\ \A k \in Ranks :
               /\ other.controls[k].id = Controls[k].id
               /\ other.controls[k].status = Controls[k].status
               /\ Range(other.controls[k].findings) = Range(Controls[k].findings)
               /\ Range(other.controls[k].evidence) = Range(Controls[k].evidence)

C16_Witness ==
  /\ ReportDone
  /\ Len(rep.scanResults) = 3
  /\ LET reversed == [i \in 1..3 |-> rep.scanResults[4 - i]]
         other == generateSOC2Report(reversed)
     IN  /\ other.controls[1].findings # Controls[1].findings
         /\ other.controls[1].evidence # Controls[1].evidence
         /\ other.controls[1].status = "non-compliant"

(***************************************************************************)
(* Properties of the fixer (SpecFix).                                      *)
(***************************************************************************)
\* the ten finding identifiers that have a remediation action
MappedIds ==
  {"bp-not-enabled", "bp-no-pr-reviews", "bp-admin-bypass", "bp-stale-reviews",
   "bp-low-review-count", "sf-no-dependabot-alerts", "rs-token-write-permissions",
   "rs-token-can-approve-prs", "rs-no-auto-delete-branches",
   "rs-private-forking-allowed"}

Invocations == 1..Len(fx.returned)

\* C17: fixFinding with a findingId outside the ten mapped identifiers
\* returns success false with error UNSUPPORTED_FIX and the requested
\* findingId, and makes no provider call at all.
C17_UnsupportedMakesNoCall ==
  (fx.findingId \notin MappedIds \cup {"none"}) =>
    /\ fx.calls = <<>>
    /\ fx.pc = "idle"
    /\ \A k \in Invocations :
         /\ fx.returned[k].success = FALSE
         /\ fx.returned[k].error = "UNSUPPORTED_FIX"
         /\ fx.returned[k].findingId = fx.findingId

C17_Witness ==
  /\ fx.findingId = "unknown-id"
  /\ Len(fx.returned) = 2
  /\ fx.returned[2].error = "UNSUPPORTED_FIX"
  /\ fx.calls = <<>>

\* C18: fixFinding never throws: every invocation returns a FixResult with
\* the requested findingId; for a mapped findingId it reports success
\* exactly when the provider completed the call, and when the provider
\* failed the call it reports success false with the provider's message as
\* error.
C18_ProviderErrorsAreReturned ==
  \A k \in Invocations :
    /\ DOMAIN fx.returned[k] = {"success", "findingId", "message", "error"}
    /\ fx.returned[k].findingId = fx.findingId
    /\ fx.findingId \in MappedIds =>
         /\ k <= Len(fx.calls)
         /\ fx.returned[k].success <=> fx.calls[k].outcome = "ok"
         /\ fx.calls[k].outcome # "ok" =>
              /\ fx.returned[k].success = FALSE
              /\ fx.returned[k].error = fx.calls[k].outcome

C18_Witness ==
  /\ fx.findingId = "rs-private-forking-allowed"
  /\ Len(fx.returned) = 2
  /\ fx.calls[1].outcome = "Server Error"
  /\ fx.returned[1] = [success |-> FALSE, findingId |-> "rs-private-forking-allowed",
                       message |-> "Failed: Server Error", error |-> "Server Error"]
  /\ fx.returned[2].success

MetadataReads ==
  1 + Cardinality({m \in ModuleSet :
                     /\ pcMany = "checks"
                     /\ mods[m].pc # "idle"
                     /\ FirstCall(m) = "repos.get"})

\* C20: during one scanRepository invocation the repository-metadata read
\* (repos.get) is issued exactly once.
C20_SingleMetadataRead ==
  pcMany \in {"identity", "checks"} => MetadataReads = 1


\* ---------------------------------------------------------------------
\* C21: a scan never writes to the provider

\* ScanCalls, had security-features turned the alerts on instead of asking
\* whether they are on
ScanCallsEnabling(m) ==
  CASE m = "scanner" -> <<[api |-> "repos", method |-> "get"]>>
    [] m = "bp" -> <<[api |-> "repos", method |-> "getBranchProtection"]>>
    [] m = "sf" -> <<[api |-> "repos", method |-> "get"],
                     [api |-> "repos", method |-> "getContent"],
                     [api |-> "repos", method |-> "enableVulnerabilityAlerts"],
                     [api |-> "repos", method |-> "getContent"],
                     [api |-> "actions", method |-> "listRepoWorkflows"],
                     [api |-> "secretScanning", method |-> "listAlertsForRepo"]>>
    [] m = "dep" -> <<[api |-> "dependabot", method |-> "listAlertsForRepo"]>>
    [] m = "ac" -> <<[api |-> "repos", method |-> "get"],
                     [api |-> "repos", method |-> "listCollaborators"],
                     [api |-> "repos", method |-> "listDeployKeys"],
                     [api |-> "repos", method |-> "listWebhooks"]>>
    [] m = "rs" -> <<[api |-> "repos", method |-> "get"],
                     [api |-> "repos", method |-> "getReadme"],
                     [api |-> "licenses", method |-> "getForRepo"],
                     [api |-> "repos", method |-> "getContent"],
                     [api |-> "actions", method |-> "getGithubActionsPermissionsRepository"],
                     [api |-> "repos", method |-> "getContent"],
                     [api |-> "actions",
                      method |-> "getGithubActionsDefaultWorkflowPermissionsRepository"],
                     [api |-> "repos", method |-> "getAllEnvironments"]>>

\* the provider methods scanRepository and each check function call, in
\* source order
ScanCalls(m) ==
  CASE m = "scanner" -> <<[api |-> "repos", method |-> "get"]>>
    [] m = "bp" -> <<[api |-> "repos", method |-> "getBranchProtection"]>>
    [] m = "sf" -> <<[api |-> "repos", method |-> "get"],
                     [api |-> "repos", method |-> "getContent"],
                     [api |-> "repos", method |-> "checkVulnerabilityAlerts"],
                     [api |-> "repos", method |-> "getContent"],
                     [api |-> "actions", method |-> "listRepoWorkflows"],
                     [api |-> "secretScanning", method |-> "listAlertsForRepo"]>>
    [] m = "dep" -> <<[api |-> "dependabot", method |-> "listAlertsForRepo"]>>
    [] m = "ac" -> <<[api |-> "repos", method |-> "get"],
                     [api |-> "repos", method |-> "listCollaborators"],
                     [api |-> "repos", method |-> "listDeployKeys"],
                     [api |-> "repos", method |-> "listWebhooks"]>>
    [] m = "rs" -> <<[api |-> "repos", method |-> "get"],
                     [api |-> "repos", method |-> "getReadme"],
                     [api |-> "licenses", method |-> "getForRepo"],
                     [api |-> "repos", method |-> "getContent"],
                     [api |-> "actions", method |-> "getGithubActionsPermissionsRepository"],
                     [api |-> "repos", method |-> "getContent"],
                     [api |-> "actions",
                      method |-> "getGithubActionsDefaultWorkflowPermissionsRepository"],
                     [api |-> "repos", method |-> "getAllEnvironments"]>>

\* the provider methods that change a repository's configuration: the ones
\* the fixer calls
WriteMethods ==
  LET actions == FixActions("main")
  IN  {actions[k].method : k \in DOMAIN actions}

\* the provider methods of the calls the scan at the loop position has in
\* flight
IssuedCalls ==
  IF pcMany = "identity" THEN {ScanCalls("scanner")[1]}
  ELSE IF pcMany = "checks"
    THEN UNION {CASE mods[m].pc = "first" -> {ScanCalls(m)[1]}
                  [] mods[m].pc = "rest" ->
                       {ScanCalls(m)[i] : i \in 2..Len(ScanCalls(m))}
                  [] OTHER -> {}
                : m \in ModuleSet}
  ELSE {}

\* C21: no step of a batch scan, successful or failed, changes the provider's
\* configuration, and no call a scan has in flight is a provider write.
C21_ScanIsReadOnly ==
  [][/\ provider' = provider
     /\ \A c \in IssuedCalls' : c.method \notin WriteMethods]_vars

\* a batch returned after one scan that succeeded and one that failed in its
\* check modules
C21_Witness ==
  /\ pcMany = "returned"
  /\ Len(batch) = 2
  /\ outcome[1].ok
  /\ outcome[2] = [ok |-> FALSE, at |-> "checks"]
  /\ launched = {1, 2}


\* ---------------------------------------------------------------------
\* C22: the control of the change-management findings

\* the findings about PR reviews, required status checks, code-owner review
\* and signed commits
ChangeManagementIds ==
  {"bp-no-pr-reviews", "bp-no-status-checks", "bp-no-codeowner-review",
   "bp-no-signed-commits"}

\* C22: every finding about PR reviews, required status checks, code-owner
\* review or signed commits that branch-protection emits carries control
\* CC8.1, so that the report pools it under CC8.1.
C22_ChangeManagementIsCC81 ==
  (CheckDone /\ chk.module = "bp" /\ chk.result.ok) =>
    \A i \in 1..Len(chk.result.findings) :
      chk.result.findings[i].id \in ChangeManagementIds =>
        Pools(chk.result.findings[i], "CC8.1")


\* ---------------------------------------------------------------------
\* C23: independence of the branch-protection predicates

BpPolicyRun == CheckDone /\ chk.module = "bp" /\ ~IsError(chk.first)

\* the three predicates about the content of the review requirement
ReviewIds == {"bp-stale-reviews", "bp-no-codeowner-review", "bp-low-review-count"}

\* the findings each field of the protection policy governs
FieldIds ==
  [required_pull_request_reviews |-> {"bp-no-pr-reviews"} \cup ReviewIds,
   enforce_admins |-> {"bp-admin-bypass"},
   required_status_checks |-> {"bp-no-status-checks"},
   allow_force_pushes |-> {"bp-force-push-allowed"},
   allow_deletions |-> {"bp-deletions-allowed"},
   required_conversation_resolution |-> {"bp-no-conversation-resolution"},
   required_signatures |-> {"bp-no-signed-commits"},
   required_linear_history |-> {"bp-no-linear-history"}]

\* the values a field of the policy can take
FieldValues(field) == {p[field] : p \in Policies}

\* the policy findings in source order
BpCatalog ==
  <<BpFindings.NoPrReviews, BpFindings.StaleReviews, BpFindings.NoCodeownerReview,
    BpFindings.LowReviewCount, BpFindings.AdminBypass, BpFindings.NoStatusChecks,
    BpFindings.ForcePushAllowed, BpFindings.DeletionsAllowed,
    BpFindings.NoConversationResolution, BpFindings.NoSignedCommits,
    BpFindings.NoLinearHistory>>

\* C23 as stated: each predicate fires on its own configuration condition
\* alone; in particular the stale-review, code-owner-review and review-count
\* findings are emitted whenever their setting is not in force, whether or
\* not pull-request reviews are required.
C23_ReviewPredicatesUnconditional ==
  BpPolicyRun =>
    LET reviews == chk.first.data.required_pull_request_reviews
        ids == Ids(chk.result.findings)
    IN  /\ "bp-stale-reviews" \in ids
             <=> ~(reviews # Null /\ reviews.dismiss_stale_reviews)
        /\ "bp-no-codeowner-review" \in ids
             <=> ~(reviews # Null /\ reviews.require_code_owner_reviews)
        /\ "bp-low-review-count" \in ids
             <=> ~(reviews # Null /\ reviews.required_approving_review_count >= 2)

\* C23 as amended: the findings a field of the policy governs depend on that
\* field alone, and the output is the catalog, in source order, restricted to
\* the predicates that fired; the stale-review, code-owner-review and
\* review-count predicates are evaluated only when pull-request reviews are
\* required, and bp-no-pr-reviews stands alone when they are not.
C23_IndependentPerField ==
  BpPolicyRun =>
    LET data == chk.first.data
        reviews == data.required_pull_request_reviews
        fs == chk.result.findings
        ids == Ids(fs)
    IN  /\ \A field \in DOMAIN FieldIds :
             \A v \in FieldValues(field) :
               LET other == Ids(checkBranchProtection(
                                  Ok([data EXCEPT ![field] = v])).findings)
               IN  ids \ FieldIds[field] = other \ FieldIds[field]
        /\ fs = SelectSeq(BpCatalog, LAMBDA f : f.id \in ids)
        /\ "bp-no-pr-reviews" \in ids <=> reviews = Null
        /\ reviews = Null => ids \cap ReviewIds = {}
        /\ reviews # Null =>
             /\ "bp-stale-reviews" \in ids <=> ~reviews.dismiss_stale_reviews
             /\ "bp-no-codeowner-review" \in ids <=> ~reviews.require_code_owner_reviews
             /\ "bp-low-review-count" \in ids
                  <=> reviews.required_approving_review_count < 2

\* a policy that requires no pull-request review: of the four review
\* findings only bp-no-pr-reviews is emitted
C23_Witness ==
  /\ BpPolicyRun
  /\ chk.first.data.required_pull_request_reviews = Null
  /\ ~chk.first.data.required_signatures
  /\ Ids(chk.result.findings) \cap FieldIds.required_pull_request_reviews
       = {"bp-no-pr-reviews"}
  /\ "bp-no-signed-commits" \in Ids(chk.result.findings)


\* ---------------------------------------------------------------------
\* C24: what a fix changes besides its own setting

\* what repos.getBranchProtection answers for a branch of a configuration:
\* 404 without a policy; otherwise the policy, in which required status
\* checks name one context and the settings no fix action writes are the
\* hardened ones
ProtectionAnswer(config, branch) ==
  LET p == config.protection[branch]
  IN  IF p = Null THEN Err(404)
      ELSE Ok([FullPolicy EXCEPT
                 !.required_pull_request_reviews =
                    IF p.required_pull_request_reviews = Null THEN Null
                    ELSE [FullReviews EXCEPT
                            !.dismiss_stale_reviews =
                               p.required_pull_request_reviews.dismiss_stale_reviews,
                            !.required_approving_review_count =
                               p.required_pull_request_reviews
                                .required_approving_review_count],
                 !.enforce_admins = p.enforce_admins,
                 !.required_status_checks =
                    IF p.required_status_checks = Null THEN Null
                    ELSE [contexts |-> 1]])

\* the branch-protection findings a rescan of a branch reports
Rescan(config, branch) ==
  Ids(checkBranchProtection(ProtectionAnswer(config, branch)).findings)

\* C24: when a mapped fix succeeds on a branch that already has a protection
\* policy, a rescan reports no branch-protection finding that was absent
\* before the fix.
C24_FixAddsNoFinding ==
  [][( /\ fx.pc = "calling"
       /\ fx'.pc = "idle"
       /\ fx'.returned[Len(fx'.returned)].success
       /\ fx.calls[Len(fx.calls)].action.branch # ""
       /\ fx.config.protection[fx.calls[Len(fx.calls)].action.branch] # Null )
     => \A b \in {"main", "dev"} :
          Rescan(fx'.config, b) \subseteq Rescan(fx.config, b)]_vars


\* ---------------------------------------------------------------------
\* C25: positive evidence in the report of a batch scan

\* the evidence sentences the report of the scanned batch attaches to a
\* control
EvidenceOfBatch(controlId) ==
  LET evidence == controlEvidence(results, controlId)
  IN  {evidence[k] : k \in 1..Len(evidence)}

\* C25: in the report generated from the results of a batch scan, the
\* branch-protection sentence is attached for a repository only if the
\* provider returned a protection policy for its default branch, and the
\* Dependabot-alerts and secret-scanning sentences only if the corresponding
\* provider query succeeded.
C25_EvidenceOnlyIfObserved ==
  \A i \in 1..Len(results) :
    LET r == results[i].repository
        a == provider[r.fullName]
    IN  /\ (r.fullName \o EvidenceTable[1].sentence) \in EvidenceOfBatch("CC6.1")
             => ~IsError(a.protection[r.defaultBranch])
        /\ (r.fullName \o EvidenceTable[2].sentence) \in EvidenceOfBatch("CC7.1")
             => ~IsError(a.vulnAlerts)
        /\ (r.fullName \o EvidenceTable[5].sentence) \in EvidenceOfBatch("CC6.7")
             => ~IsError(a.secretScanning)


\* ---------------------------------------------------------------------
\* C26: the push-protection note and control CC6.7

\* a scan result as the report reads it: every finding has a description
Described(result) ==
  [result EXCEPT !.findings =
     [k \in 1..Len(result.findings) |->
        [description |-> "Finding " \o result.findings[k].id \o "."]
        @@ result.findings[k]]]

\* the reports over three of the scan results of the batch
ReportsOfThree ==
  {generateSOC2Report(rs) :
     rs \in [1..3 -> {Described(results[i]) : i \in 1..Len(results)}]}

\* C26: at severityThreshold info every scan result holds the info finding
\* sf-push-protection-check of control CC6.7, so a report over scan results
\* pools at least one finding per result under CC6.7, and over three or more
\* results CC6.7 is not compliant.
C26_PushProtectionNote ==
  threshold = "info" =>
    /\ \A i \in 1..Len(results) :
         /\ SfFindings.PushProtectionCheck \in Range(results[i].findings)
         /\ Len(generateSOC2Report(<<Described(results[i])>>).controls[3].findings) >= 1
    /\ \A report \in ReportsOfThree :
         /\ report.controls[3].id = "CC6.7"
         /\ Len(report.controls[3].findings) >= 3
         /\ report.controls[3].status # "compliant"

\* a hardened and a flaky repository scanned at info: the only finding
\* pooled under CC6.7 is the note, and the report over three of the results
\* is partial on CC6.7
C26_Witness ==
  /\ threshold = "info"
  /\ pcMany = "returned"
  /\ Len(results) = 2
  /\ results[1].repository.fullName # results[2].repository.fullName
  /\ \E report \in ReportsOfThree :
       /\ Len(report.repositories) = 3
       /\ Len(report.controls[3].findings) = 3
       /\ report.controls[3].status = "partial"


\* ---------------------------------------------------------------------
\* C27: a severityThreshold that is no Severity

\* C27: when severityThreshold is a non-empty value that is none of the five
\* severities, scanRepository retains no finding: findings is empty, the
\* summary is all zero and the score is 100, whatever the checks emitted.
C27_UnknownThresholdRetainsNothing ==
  (ResultDone /\ threshold \notin Severity \cup {"unset", ""}) =>
    /\ res.result.findings = <<>>
    /\ res.result.summary = [critical |-> 0, high |-> 0, medium |-> 0, low |-> 0,
                             info |-> 0, passed |-> 0]
    /\ res.result.score = 100

\* --severity warning on a repository without branch protection
C27_Witness ==
  /\ ResultDone
  /\ threshold = "warning"
  /\ BpFindings.NotEnabled \in Range(res.allFindings)
  /\ Len(res.allFindings) = MaxFindings
  /\ res.result.findings = <<>>
  /\ res.result.score = 100


(***************************************************************************)
(* SpecDrift: the batch scan while the owner of a repository changes its   *)
(* configuration.                                                          *)
(***************************************************************************)
\* between two answers of the scan at the loop position, the repository
\* under scan is made public and its default branch renamed to master
Reconfigure ==
  /\ Scanning
  /\ provider[batch[idx]].repo = HardenedRepo(batch[idx])
  /\ provider' = [provider EXCEPT ![batch[idx]].repo =
                    [@ EXCEPT !.visibility = "public", !.default_branch = "master"]]
  /\ UNCHANGED <<threshold, batch, idx, pcMany, repoData, mods, orphans, results,
                 outcome, launched, inverted, chk, res, rep, fx, ext>>

NextDrift == Next \/ Reconfigure

SpecDrift == Init /\ [][NextDrift]_vars

\* C28: at severityThreshold info every scan result is consistent with one
\* snapshot of the repository's metadata, even when the configuration changes
\* during the scan: ac-public-repo is among the findings exactly when
\* result.repository.visibility is public, and rs-legacy-branch-name exactly
\* when result.repository.defaultBranch is master.
C28_OneMetadataSnapshot ==
  threshold = "info" =>
    \A i \in 1..Len(results) :
      /\ "ac-public-repo" \in Ids(results[i].findings)
           <=> results[i].repository.visibility = "public"
      /\ "rs-legacy-branch-name" \in Ids(results[i].findings)
           <=> results[i].repository.defaultBranch = "master"


(***************************************************************************)
(* SpecExt: the editor extension's connection to the provider.             *)
(***************************************************************************)
\* activate: restoreConnection is called and awaits secretStorage.get
InitExt ==
  /\ provider = [n \in Repos |-> Hardened(n)]
  /\ threshold = "unset"
  /\ ScanIdle
  /\ chk = NoRun
  /\ res = NoResult
  /\ rep = [scanResults |-> <<>>, after |-> <<>>, report |-> Pending]
  /\ fx = [findingId |-> "none", branch |-> "unset", config |-> Null,
           pc |-> "idle", calls |-> <<>>, returned |-> <<>>, configs |-> <<>>]
  /\ \E token \in {"none", "ghp_1"} :
       ext = [ExtIdle EXCEPT !.stored = token, !.restore = "get"]

\* restoreConnection resumes after one of its awaits; ok: whether the
\* awaited call (secretStorage.get, fetchRepos, secretStorage.delete)
\* succeeded
restoreConnection(ok) ==
  /\ ext.restore \in {"get", "fetch", "delete"}
  /\ ext' =
       CASE ext.restore = "get" ->
              IF ~ok \/ ext.stored = "none" THEN [ext EXCEPT !.restore = "done"]
              ELSE [ext EXCEPT !.scanner = ext.stored, !.fixer = ext.stored,
                               !.restore = "fetch"]
         [] ext.restore = "fetch" ->
              IF ok THEN [ext EXCEPT !.connected = TRUE, !.restore = "done"]
              ELSE [ext EXCEPT !.restore = "delete"]
         [] ext.restore = "delete" ->
              IF ok THEN [ext EXCEPT !.stored = "none", !.restore = "done"]
              ELSE [ext EXCEPT !.restore = "done"]
  /\ UNCHANGED <<scanVars, chk, res, rep, fx>>

\* connectCommand is invoked and the input box answers inputToken, or it
\* resumes after fetchRepos or secretStorage.store
connectCommand(inputToken, ok) ==
  /\ ext.connect = "idle" => ext.restore # "idle"
  /\ ext.connect # "idle" => inputToken = ext.input
  /\ ext' =
       CASE ext.connect = "idle" ->
              IF inputToken = "" THEN ext
              ELSE [ext EXCEPT !.scanner = inputToken, !.fixer = inputToken,
                               !.input = inputToken, !.connect = "fetch"]
         [] ext.connect = "fetch" ->
              IF ok THEN [ext EXCEPT !.connect = "store"]
              ELSE [ext EXCEPT !.scanner = "null", !.fixer = "null",
                               !.input = "none", !.connect = "idle"]
         [] ext.connect = "store" ->
              IF ok THEN [ext EXCEPT !.stored = ext.input, !.connected = TRUE,
                                     !.input = "none", !.connect = "idle"]
              ELSE [ext EXCEPT !.scanner = "null", !.fixer = "null",
                               !.input = "none", !.connect = "idle"]
  /\ UNCHANGED <<scanVars, chk, res, rep, fx>>

\* disconnectCommand is invoked and awaits secretStorage.delete, or it
\* resumes after it
disconnectCommand(ok) ==
  /\ ext.restore # "idle"
  /\ ext.disconnect = "idle" => ok
  /\ ext' =
       CASE ext.disconnect = "idle" -> [ext EXCEPT !.disconnect = "delete"]
         [] ext.disconnect = "delete" ->
              IF ok THEN [ext EXCEPT !.stored = "none", !.scanner = "null",
                                     !.fixer = "null", !.connected = FALSE,
                                     !.disconnect = "idle"]
              ELSE [ext EXCEPT !.disconnect = "idle"]
  /\ UNCHANGED <<scanVars, chk, res, rep, fx>>

NextExt ==
  \/ \E ok \in BOOLEAN : restoreConnection(ok)
  \/ \E inputToken \in {"", "ghp_1", "ghp_2"}, ok \in BOOLEAN :
       connectCommand(inputToken, ok)
  \/ \E ok \in BOOLEAN : disconnectCommand(ok)

SpecExt == InitExt /\ [][NextExt]_vars

\* no handler of the extension is waiting for an answer
ExtQuiescent ==
  /\ ext.restore = "done"
  /\ ext.connect = "idle"
  /\ ext.disconnect = "idle"

\* C29: once restore, connect and disconnect have run to their end, whether
\* they succeeded or failed, the scanner and fixer handles are non-null only
\* if a token is held in secret storage, and the scanner handle is non-null
\* exactly when the fixer handle is.
C29_HandlesOnlyWithToken ==
  ExtQuiescent =>
    /\ (ext.scanner # "null" \/ ext.fixer # "null") => ext.stored # "none"
    /\ ext.scanner # "null" <=> ext.fixer # "null"


(***************************************************************************)
(* The control status as the editor extension derives it.                  *)
(***************************************************************************)
\* the results panel: the badge of each control of the SOC 2 section
getHtmlContent(scanResults) ==
  [k \in 1..Len(SOC2_CONTROLS) |->
     LET id == SOC2_CONTROLS[k]
         pooled ==
           {<<i, j>> \in UNION {{i} \X (1..Len(scanResults[i].findings)) :
                                  i \in 1..Len(scanResults)} :
              /\ scanResults[i].findings[j].soc2Control # NoControl
              /\ scanResults[i].findings[j].soc2Control = id}
         criticalOrHigh ==
           {p \in pooled :
              scanResults[p[1]].findings[p[2]].severity \in {"critical", "high"}}
     IN  [id |-> id,
          badgeClass |->
            IF criticalOrHigh = {} /\ Cardinality(pooled) <= 2
              THEN "badge-compliant"
            ELSE IF criticalOrHigh = {} THEN "badge-partial"
            ELSE "badge-non-compliant"]]

\* the saved report: controlId, status and findingsCount per control
generateSOC2Summary(scanResults) ==
  LET ids == <<"CC6.1", "CC6.2", "CC6.7", "CC7.1", "CC7.4", "CC8.1">>
  IN  [k \in 1..Len(ids) |->
         LET findings ==
               {<<i, j>> \in UNION {{i} \X (1..Len(scanResults[i].findings)) :
                                      i \in 1..Len(scanResults)} :
                  /\ scanResults[i].findings[j].soc2Control # NoControl
                  /\ scanResults[i].findings[j].soc2Control = ids[k]}
             criticalOrHigh ==
               {p \in findings :
                  scanResults[p[1]].findings[p[2]].severity \in {"critical", "high"}}
         IN  [controlId |-> ids[k],
              status |-> IF criticalOrHigh = {} /\ Cardinality(findings) <= 2
                           THEN "compliant"
                         ELSE IF criticalOrHigh = {} THEN "partial"
                         ELSE "non-compliant",
              findingsCount |-> Cardinality(findings)]]

\* the tree view: description and icon of each control item; the count is
\* written 0 in the description of a control without finding
getSOC2Items(scanResults) ==
  [k \in 1..Len(SOC2_CONTROLS) |->
     LET count ==
           Cardinality(
             {<<i, j>> \in UNION {{i} \X (1..Len(scanResults[i].findings)) :
                                    i \in 1..Len(scanResults)} :
                /\ scanResults[i].findings[j].soc2Control # NoControl
                /\ scanResults[i].findings[j].soc2Control = SOC2_CONTROLS[k]})
     IN  [id |-> SOC2_CONTROLS[k],
          description |-> IF count = 0 THEN "Compliant" ELSE "findings",
          count |-> count,
          icon |-> IF count = 0 THEN "pass"
                   ELSE IF count <= 2 THEN "warning"
                   ELSE "error"]]

\* the status a badge of the results panel or an icon of the tree view
\* stands for
StatusShown ==
  [x \in {"badge-compliant", "pass"} |-> "compliant"]
  @@ [x \in {"badge-partial", "warning"} |-> "partial"]
  @@ [x \in {"badge-non-compliant", "error"} |-> "non-compliant"]

\* C30: from the same list of scan results, the results panel,
\* generateSOC2Summary and the tree view give every control the status the
\* core report gives it.
C30_FrontEndsAgreeWithCore ==
  ReportDone =>
    \A k \in Ranks :
      /\ getHtmlContent(rep.scanResults)[k].id = Controls[k].id
      /\ StatusShown[getHtmlContent(rep.scanResults)[k].badgeClass] = Controls[k].status
      /\ generateSOC2Summary(rep.scanResults)[k].controlId = Controls[k].id
      /\ generateSOC2Summary(rep.scanResults)[k].status = Controls[k].status
      /\ getSOC2Items(rep.scanResults)[k].id = Controls[k].id
      /\ StatusShown[getSOC2Items(rep.scanResults)[k].icon] = Controls[k].status

\* the results panel and generateSOC2Summary alone do agree with the core
PanelAndSummaryAgree ==
  ReportDone =>
    \A k \in Ranks :
      /\ StatusShown[getHtmlContent(rep.scanResults)[k].badgeClass] = Controls[k].status
      /\ generateSOC2Summary(rep.scanResults)[k].status = Controls[k].status
      /\ generateSOC2Summary(rep.scanResults)[k].findingsCount = Len(Controls[k].findings)

====
